---- MODULE Spec2Model ----
(***************************************************************************)
(* Model of the monitoring / alerting core of atlas-cf-skills:             *)
(*   - skills/cloudflare-asset-monitor/src/index.ts  (scheduled cycle,     *)
(*     AssetMonitorDO snapshot store, checkThresholds,                     *)
(*     checkSustainedViolation)                                            *)
(*   - cloudflare-operations-dashboard/src/alert-manager.ts (AlertManager) *)
(*   - cloudflare-operations-dashboard/src/index.ts (the alert routes,     *)
(*     getDashboardOverview, getTotalCosts)                                *)
(*   - unnamed/part_006 (CloudflareAPIClient.getWorkerHealth,              *)
(*     CostCalculator)                                                     *)
(*                                                                         *)
(* Numbers.  TLC has no floats: rates are kept in thousandths              *)
(* (errorRate 0.005 is 5, the 0.05 limit is 50).  The three storage        *)
(* limits of the Durable Object (100, 1000, 10000) are scaled down to      *)
(* 1 < 2 < 3, keeping their order.                                         *)
(***************************************************************************)
EXTENDS Integers, Sequences, FiniteSets, TLC

(***************************************************************************)
(* Bounds of the model                                                     *)
(***************************************************************************)
\* longest batch of one direct /store request
MaxBatch == 2
\* largest maxSnapshots argument tried on pruneOldSnapshots
MaxRetainArg == 2
\* cron triggers of one run
MaxCycles == 2
\* milliseconds Date.now() can advance between two snapshots of a cycle
MaxClockStep == 1
\* alerts one AlertManager records in a run
MaxAlerts == 2
\* longest history handed to checkSustainedViolation
MaxHistory == 3
\* largest limit argument tried on getHistory
MaxLimitArg == 2
\* longest rule list handed to checkThresholds
MaxRules == 3
\* longest list of checks handed to calculateUptime
MaxChecks == 4
\* longest list of assets handed to categorizeByProject
MaxAssets == 3
\* greatest value a metric counter of BusinessAgentDO is followed to; a
\* counter beyond it is kept at it
MaxMetric == 2

(***************************************************************************)
(* Program constants                                                       *)
(***************************************************************************)
\* index.ts:398  pruneOldSnapshots(snapshot.assetId, 1000)   (scaled)
MaxSnapshots == 2
\* index.ts:518  getHistory(assetId, 10000)                  (scaled)
PruneScanLimit == 3
\* index.ts:442  getHistory(serviceName, 100)                (scaled)
DefaultHistoryLimit == 1
\* index.ts:448  snapshots.slice(-48)                        (scaled)
Uptime24hChecks == 1
\* index.ts:449  snapshots.slice(-336)                       (scaled)
Uptime7dChecks == 2

(***************************************************************************)
(* Generic helpers                                                         *)
(***************************************************************************)
Max(a, b) == IF a >= b THEN a ELSE b

Min(a, b) == IF a <= b THEN a ELSE b

Range(s) == {s[i] : i \in 1..Len(s)}

\* Array.prototype.slice(from, to) on a 0-based array, 0 <= from
Slice(s, from, to) == SubSeq(s, from + 1, Min(to, Len(s)))

\* all sequences over S of length at most n
SeqsUpTo(S, n) == UNION {[1..k -> S] : k \in 0..n}

(***************************************************************************)
(* Storage keys: `health:${assetId}:${timestamp}`.  A number is rendered   *)
(* in decimal, and storage.list() returns keys in the order of their       *)
(* bytes, so keys of one asset are ordered as decimal STRINGS.             *)
(***************************************************************************)
RECURSIVE Digits(_)
Digits(n) == IF n < 10 THEN <<n>> ELSE Append(Digits(n \div 10), n % 10)

RECURSIVE StrLess(_, _)
StrLess(s, t) ==
    IF s = <<>> THEN t # <<>>
    ELSE IF t = <<>> THEN FALSE
    ELSE IF Head(s) # Head(t) THEN Head(s) < Head(t)
    ELSE StrLess(Tail(s), Tail(t))

\* the key of a snapshot: the asset id and the rendered timestamp
Key(assetId, timestamp) == <<assetId, Digits(timestamp)>>

KeyOf(snapshot) == Key(snapshot.assetId, snapshot.timestamp)

RECURSIVE SortKeys(_)
SortKeys(keys) ==
    IF keys = {} THEN <<>>
    ELSE LET first == CHOOSE k \in keys :
                        \A o \in keys \ {k} : StrLess(k[2], o[2])
         IN  <<first>> \o SortKeys(keys \ {first})

\* storage.list({ prefix: `health:${assetId}:`, limit }): the keys under the
\* prefix in ascending key order, cut at limit
ListKeys(store, assetId, limit) ==
    LET mine == {k \in DOMAIN store : k[1] = assetId}
    IN  Slice(SortKeys(mine), 0, limit)

\* AssetMonitorDO.getHistory
getHistory(store, assetId, limit) ==
    LET keys == ListKeys(store, assetId, limit)
    IN  [i \in 1..Len(keys) |-> store[keys[i]]]

\* checks.filter(c => c.status === 'healthy').length
RECURSIVE CountHealthy(_)
CountHealthy(checks) ==
    IF checks = <<>> THEN 0
    ELSE (IF Head(checks).status = "healthy" THEN 1 ELSE 0)
         + CountHealthy(Tail(checks))

\* calculateUptime that takes every check that is not down for a healthy one
calculateUptime_NotDown(checks) ==
    IF Len(checks) = 0 THEN [num |-> 100, den |-> 1]
    ELSE LET healthy == Len(SelectSeq(checks, LAMBDA c : c.status # "down"))
         IN  [num |-> healthy * 100, den |-> Len(checks)]

\* AssetMonitorDO.calculateUptime: (healthy / checks.length) * 100, kept as
\* the fraction num / den
calculateUptime(checks) ==
    IF Len(checks) = 0 THEN [num |-> 100, den |-> 1]
    ELSE LET healthy == CountHealthy(checks)
         IN  [num |-> healthy * 100, den |-> Len(checks)]

\* Array.prototype.slice(-n), n > 0: the last n elements
SliceLast(s, n) == SubSeq(s, Max(1, Len(s) - n + 1), Len(s))

\* the uptime object of GET /health/:service and GET /history/:service
UptimeWindows(checks) ==
    [h24 |-> calculateUptime(SliceLast(checks, Uptime24hChecks)),
     d7 |-> calculateUptime(SliceLast(checks, Uptime7dChecks)),
     d30 |-> [num |-> 999, den |-> 10]]

\* AssetMonitorDO.fetch, GET /health/:service
ServiceHealth(store, serviceName) ==
    LET history == getHistory(store, serviceName, DefaultHistoryLimit)
    IN  IF Len(history) = 0 THEN [status |-> 404, body |-> <<>>]
        ELSE LET latest == history[Len(history)]
             IN  [status |-> 200,
                  body |-> <<[name |-> serviceName, type |-> latest.assetType,
                              status |-> latest.status,
                              lastCheck |-> latest.timestamp,
                              uptime |-> UptimeWindows(history)]>>]

\* AssetMonitorDO.fetch, GET /history/:service?limit=: limitParam is <<>>
\* when the query has no limit
ServiceHistory(store, serviceName, limitParam) ==
    LET limit == IF limitParam = <<>> THEN DefaultHistoryLimit
                 ELSE limitParam[1]
        checks == getHistory(store, serviceName, limit)
    IN  [service |-> serviceName,
         checks |-> [i \in 1..Len(checks) |->
                        [timestamp |-> checks[i].timestamp,
                         status |-> checks[i].status]],
         uptime |-> UptimeWindows(checks)]

\* storage.put(key, value)
Put(store, snapshot) ==
    [k \in DOMAIN store \cup {KeyOf(snapshot)} |->
        IF k = KeyOf(snapshot) THEN snapshot ELSE store[k]]

RECURSIVE PutAll(_, _)
PutAll(store, snapshots) ==
    IF snapshots = <<>> THEN store
    ELSE PutAll(Put(store, Head(snapshots)), Tail(snapshots))

\* storage.delete(key) for each key
DeleteKeys(store, keys) == [k \in DOMAIN store \ keys |-> store[k]]

\* the keys pruneOldSnapshots deletes
PruneKeys(store, assetId, maxSnapshots) ==
    LET snapshots == getHistory(store, assetId, PruneScanLimit)
    IN  IF Len(snapshots) > maxSnapshots
        THEN LET toDelete == Len(snapshots) - maxSnapshots
                 doomed   == Slice(snapshots, 0, toDelete)
             IN  {Key(assetId, doomed[i].timestamp) : i \in 1..Len(doomed)}
        ELSE {}

\* AssetMonitorDO.pruneOldSnapshots
pruneOldSnapshots(store, assetId, maxSnapshots) ==
    DeleteKeys(store, PruneKeys(store, assetId, maxSnapshots))

RECURSIVE PruneEach(_, _)
PruneEach(store, snapshots) ==
    IF snapshots = <<>> THEN store
    ELSE PruneEach(pruneOldSnapshots(store, Head(snapshots).assetId, MaxSnapshots),
                   Tail(snapshots))

\* POST /store that prunes once, the asset of its first snapshot
StoreHandler_PruneOnce(store, snapshots) ==
    IF snapshots = <<>> THEN store
    ELSE pruneOldSnapshots(PutAll(store, snapshots), Head(snapshots).assetId,
                           MaxSnapshots)

\* AssetMonitorDO.fetch, POST /store: put every snapshot, then prune every
\* snapshot's asset
StoreHandler(store, snapshots) == PruneEach(PutAll(store, snapshots), snapshots)

(***************************************************************************)
(* Discovery (discoverWorkers, discoverR2Buckets, discoverD1Databases)     *)
(* Names are kept as their hyphen-separated segments:                      *)
(* <<"kiamichi", "main">> is "kiamichi-main".                              *)
(***************************************************************************)
\* deriveProjectName: split on '-', the first part if there are several,
\* else the name itself.  A project name is a string like a name: a sequence
\* of segments; <<"">> is the empty string, <<>> stands for undefined.
deriveProjectName(assetName) ==
    LET parts == assetName
    IN  IF Len(parts) > 1 THEN <<parts[1]>> ELSE assetName

\* !s for a string or undefined
Falsy(s) == s = <<>> \/ s = <<"">>

\* the loop of categorizeByProject on the record built so far
RECURSIVE CategorizeInto(_, _)
CategorizeInto(projects, assets) ==
    IF assets = <<>> THEN projects
    ELSE LET asset   == Head(assets)
             project == IF Falsy(asset.projectName) THEN <<"unknown">>
                        ELSE asset.projectName
             group   == IF project \in DOMAIN projects THEN projects[project]
                        ELSE <<>>
         IN  CategorizeInto(
                 [q \in DOMAIN projects \cup {project} |->
                     IF q = project THEN Append(group, asset) ELSE projects[q]],
                 Tail(assets))

\* categorizeByProject
categorizeByProject(assets) == CategorizeInto([q \in {} |-> <<>>], assets)

\* data.result.map(worker => Asset) of discoverWorkers
WorkerAsset(workerId) ==
    [id |-> workerId, name |-> workerId, type |-> "worker",
     projectName |-> deriveProjectName(workerId)]

\* (data.result.buckets || []).map(bucket => Asset) of discoverR2Buckets
BucketAsset(bucketName) ==
    [id |-> bucketName, name |-> bucketName, type |-> "r2",
     projectName |-> deriveProjectName(bucketName)]

\* (data.result || []).map(db => Asset) of discoverD1Databases
DatabaseAsset(db) ==
    [id |-> db.uuid, name |-> db.name, type |-> "d1",
     projectName |-> deriveProjectName(db.name)]

MapSeq(Op(_), s) == [i \in 1..Len(s) |-> Op(s[i])]

(***************************************************************************)
(* getDashboardOverview (dashboard index.ts).  A string is kept as its     *)
(* hyphen-separated segments, <<>> is the empty string (and null), and     *)
(* String.prototype.includes is taken on whole segments.                   *)
(***************************************************************************)
PROJECT_PRESETS ==
    [p \in {<<"devflo">>, <<"kiamichi">>, <<"minte">>, <<"srvcflo">>,
            <<"atlas">>, <<"all">>} |->
        CASE p = <<"devflo">>   -> <<<<"devflo", "moltworker">>>>
          [] p = <<"kiamichi">> -> << <<"kiamichi", "biz", "connect">>,
                                      <<"kiamichi", "business", "agent">>,
                                      <<"kiamichi", "biz", "ai", "analyzer">>,
                                      <<"kiamichi", "facebook", "worker">> >>
          [] p = <<"minte">>    -> << <<"minte", "blog", "worker">>,
                                      <<"cloudflare", "ops", "dashboard">>,
                                      <<"flo", "social", "worker">> >>
          [] p = <<"srvcflo">>  -> << <<"srvcflo", "marketing">>,
                                      <<"atlas", "admin", "ui">>,
                                      <<"atlas", "srvcflo">> >>
          [] p = <<"atlas">>    -> << <<"atlas", "admin", "ui">>,
                                      <<"atlas", "dashboard">>,
                                      <<"atlas", "code", "orchestrator">>,
                                      <<"memory", "search">>,
                                      <<"memory", "embedder">> >>
          [] p = <<"all">>      -> <<>>]

\* name.includes(filter)
Includes(name, filter) ==
    \E o \in 0..(Len(name) - Len(filter)) :
        SubSeq(name, o + 1, o + Len(filter)) = filter

\* item.name || item.id || item.title || ''
ItemName(item) ==
    IF item.name # <<>> THEN item.name
    ELSE IF item.id # <<>> THEN item.id
    ELSE item.title

\* getDashboardOverview(api, project) on what the five list calls returned
getDashboardOverview(listed, project) ==
    LET projectFilters ==
            IF project # <<>> /\ project \in DOMAIN PROJECT_PRESETS
            THEN PROJECT_PRESETS[project] ELSE <<>>
        showAll == project = <<>> \/ project = <<"all">>
                   \/ Len(projectFilters) = 0
        matches(item) ==
            \E i \in 1..Len(projectFilters) :
                Includes(ItemName(item), projectFilters[i])
        filterByProject(items) ==
            IF showAll THEN items ELSE SelectSeq(items, matches)
    IN  [available_projects |-> DOMAIN PROJECT_PRESETS,
         current_project |-> IF project # <<>> THEN project ELSE <<"all">>,
         workers |-> filterByProject(listed.workers),
         databases |-> filterByProject(listed.databases),
         r2_buckets |-> filterByProject(listed.buckets),
         kv_namespaces |-> filterByProject(listed.namespaces),
         durable_objects |-> filterByProject(listed.durableObjects)]

(***************************************************************************)
(* CloudflareAPIClient.getWorkerHealth.  A double is kept as a fraction    *)
(* num / den; 0 / 0 is NaN, and every comparison with NaN is false.        *)
(***************************************************************************)
NaN == [nan |-> TRUE, num |-> 0, den |-> 0]

Fraction(num, den) == [nan |-> FALSE, num |-> num, den |-> den]

\* a / b for a >= 0, b >= 0 (a positive number over 0 is Infinity, which no
\* input of getWorkerHealth produces)
Divide(a, b) == IF b = 0 THEN NaN ELSE Fraction(a, b)

\* x < n for a double x and a whole number n
LessThan(x, n) == ~x.nan /\ x.num < n * x.den

\* getWorkerHealth: data is the first row of workersInvocationsAdaptive,
\* <<>> when the answer has none
getWorkerHealth(name, data) ==
    LET errorRate ==
            IF data # <<>>
            THEN LET sum == data[1].sum
                     q   == Divide(sum.errors, sum.errors + sum.subrequests)
                 IN  IF q.nan THEN NaN ELSE Fraction(q.num * 100, q.den)
            ELSE Fraction(0, 1)
    IN  [name |-> name,
         status |-> IF LessThan(errorRate, 1) THEN "healthy"
                    ELSE IF LessThan(errorRate, 5) THEN "degraded"
                    ELSE "down",
         errorRate |-> errorRate,
         uptime_percent |->
             IF errorRate.nan THEN NaN
             ELSE Fraction(100 * errorRate.den - errorRate.num, errorRate.den)]

(***************************************************************************)
(* CostCalculator and getTotalCosts.  Money is kept in cents: every cost   *)
(* of the calculator is Math.round(dollars * 100) / 100.  storage_gb is    *)
(* kept in thousandths of a GB.                                            *)
(***************************************************************************)
\* Math.round(n / d) for n >= 0, d > 0: halves go up
RoundDiv(n, d) == (2 * n + d) \div (2 * d)

\* calculateWorkersCost: $0.30 per million requests above 10 million, $0.02
\* per million CPU milliseconds
calculateWorkersCost(usage) ==
    LET billable_requests == Max(0, usage.total_requests - 10000000)
    IN  RoundDiv(billable_requests * 30 + usage.cpu_time_ms * 2, 1000000)

\* calculateWorkersAICost
calculateWorkersAICost(usage) == 0

\* calculateD1Cost without the free tier: every row is billed
calculateD1Cost_NoFreeTier(usage) ==
    LET billable_reads  == usage.rows_read
        billable_writes == usage.rows_written
    IN  RoundDiv(billable_reads + billable_writes * 1000, 10000000)

\* calculateD1Cost: $0.001 per million rows read above 5 million, $1.00 per
\* million rows written above 100 thousand
calculateD1Cost(usage) ==
    LET billable_reads  == Max(0, usage.rows_read - 5000000)
        billable_writes == Max(0, usage.rows_written - 100000)
    IN  RoundDiv(billable_reads + billable_writes * 1000, 10000000)

\* calculateKVCost: $0.50 per million reads above 100 thousand, $5.00 per
\* million writes above 1 thousand, $0.50 per GB stored
calculateKVCost(usage) ==
    LET billable_reads  == Max(0, usage.read_count - 100000)
        billable_writes == Max(0, usage.write_count - 1000)
    IN  RoundDiv(billable_reads * 50 + billable_writes * 500
                 + usage.storage_gb * 50000, 1000000)

\* calculateTotalCost: the sum of the breakdown, rounded to cents.  Nothing
\* in the worker calls it.
calculateTotalCost(breakdown) ==
    RoundDiv(breakdown.workers + breakdown.workers_ai + breakdown.r2
             + breakdown.d1 + breakdown.durable_objects + breakdown.kv, 1)

\* getTotalCosts(api, costs, timeframe) on the answers of the six usage calls
getTotalCosts(answers) ==
    [workers |-> calculateWorkersCost(answers.workersUsage),
     workers_ai |-> calculateWorkersAICost(answers.workersAIUsage),
     r2 |-> answers.r2Costs.total_cost_usd,
     d1 |-> calculateD1Cost(answers.d1Usage),
     durable_objects |-> answers.doCosts.cost_usd,
     kv |-> calculateKVCost(answers.kvUsage),
     total_usd |-> 0]

\* forecastCosts(api, costs) on the summaries of '30d' and '60d'.  trend is
\* current / previous as a double: 0 / 0 is NaN and goes through every
\* product and every Math.round.  (A positive total over 0 would be Infinity;
\* getTotalCosts never returns a positive total.)
forecastCosts(currentMonth, previousMonth) ==
    LET cur   == currentMonth.total_usd
        prev  == previousMonth.total_usd
        trend == Divide(cur, prev)
    IN  IF trend.nan
        THEN [estimated_total_usd |-> NaN,
              confidence_interval |-> [low |-> NaN, high |-> NaN],
              trend_percent |-> NaN]
        ELSE [estimated_total_usd |-> Fraction(RoundDiv(cur * cur, prev), 1),
              confidence_interval |->
                  [low  |-> Fraction(RoundDiv(cur * cur * 9, prev * 10), 1),
                   high |-> Fraction(RoundDiv(cur * cur * 11, prev * 10), 1)],
              trend_percent |->
                  Fraction(RoundDiv((cur - prev) * 100, prev), 1)]

(***************************************************************************)
(* R2 sync monitor (workers/sync-monitor/index.ts).  An optional number is *)
(* <<n>>, with <<>> for NaN (and for null in the result).                  *)
(***************************************************************************)
\* parseInt(env.STALE_THRESHOLD_MINUTES || '10', 10) on the settings of the
\* runs: "" is the variable left unset
ParseThreshold(setting) ==
    LET text == IF setting = "" THEN "10" ELSE setting
    IN  CASE text = "10" -> <<10>>
          [] text = "5" -> <<5>>
          [] OTHER -> <<>>

\* the do / while of checkSyncHealth over the calls of BUCKET.list, each a
\* page of objects or an exception: the objects counted, and whether a call
\* threw
RECURSIVE CountPages(_)
CountPages(pages) ==
    IF pages = <<>> THEN [fileCount |-> 0, threw |-> FALSE]
    ELSE IF Head(pages).throws THEN [fileCount |-> 0, threw |-> TRUE]
    ELSE LET rest == CountPages(Tail(pages))
         IN  [fileCount |-> Head(pages).objects + rest.fileCount,
              threw |-> rest.threw]

\* checkSyncHealth(env) at Date.now() = dateNow.  bucket.lastSync is what
\* BUCKET.get('.last-sync') gives: nothing, an exception, or a text whose
\* Date is time (<<>> when the text is no date: getTime() is NaN, and
\* NaN > staleThreshold is false)
checkSyncHealth(environment, bucket, dateNow) ==
    LET staleThreshold == ParseThreshold(environment.STALE_THRESHOLD_MINUTES)
        syncFile == bucket.lastSync
        minutesSinceSync ==
            IF syncFile.kind = "text" /\ syncFile.time # <<>>
            THEN <<(dateNow - syncFile.time[1]) \div 60000>>
            ELSE <<>>
        syncIssues ==
            CASE syncFile.kind = "throws" -> <<"read_error">>
              [] syncFile.kind = "missing" -> <<"no_file">>
              [] OTHER ->
                    IF /\ minutesSinceSync # <<>> /\ staleThreshold # <<>>
                       /\ minutesSinceSync[1] > staleThreshold[1]
                    THEN <<"stale">> ELSE <<>>
        listed == CountPages(bucket.pages)
        issues == syncIssues
                  \o (IF listed.threw THEN <<"list_error">> ELSE <<>>)
                  \o (IF listed.fileCount = 0 THEN <<"empty">> ELSE <<>>)
    IN  [healthy |-> Len(issues) = 0,
         hasLastSync |-> syncFile.kind = "text",
         minutesSinceSync |-> minutesSinceSync,
         fileCount |-> listed.fileCount,
         issues |-> issues]

(***************************************************************************)
(* Environment introspector (workers/env-introspector/index.ts).  A name   *)
(* is the sequence of its characters; a value of the environment is a      *)
(* record of its typeof, its text (of a string) and its property names (of *)
(* an object).                                                             *)
(***************************************************************************)
KNOWN_SECRETS ==
    {<<"A", "P", "I", "_", "T", "O", "K", "E", "N">>,
     <<"S", "E", "C", "R", "E", "T">>, <<"K", "E", "Y">>,
     <<"P", "A", "S", "S", "W", "O", "R", "D">>,
     <<"C", "R", "E", "D", "E", "N", "T", "I", "A", "L">>,
     <<"A", "N", "T", "H", "R", "O", "P", "I", "C">>,
     <<"O", "P", "E", "N", "A", "I">>,
     <<"C", "L", "O", "U", "D", "F", "L", "A", "R", "E", "_", "A", "P", "I">>}

\* toUpperCase on the letters the names of the runs are written in
UpperChar(c) ==
    CASE c = "d" -> "D" [] c = "b" -> "B" [] c = "p" -> "P" [] c = "a" -> "A"
      [] c = "s" -> "S" [] c = "w" -> "W" [] c = "o" -> "O" [] c = "r" -> "R"
      [] OTHER -> c

toUpperCase(name) == [i \in 1..Len(name) |-> UpperChar(name[i])]

isSecret(name) ==
    \E p \in KNOWN_SECRETS : Includes(toUpperCase(name), p)

detectBindingType(value) ==
    IF value.type # "object" THEN "unknown"
    ELSE IF {"prepare", "batch"} \subseteq value.props THEN "D1"
    ELSE IF {"put", "get", "list", "delete"} \subseteq value.props
         THEN (IF "head" \in value.props THEN "R2" ELSE "KV")
    ELSE IF "run" \in value.props THEN "AI"
    ELSE IF {"send", "sendBatch"} \subseteq value.props THEN "Queue"
    ELSE IF {"get", "idFromName"} \subseteq value.props THEN "DO"
    ELSE "unknown"

\* the capability analyzeEnv pushes for a binding type, if any
CapabilityOf(type) ==
    CASE type = "AI" -> <<"Workers AI">>
      [] type = "D1" -> <<"D1 Database">>
      [] type = "R2" -> <<"R2 Storage">>
      [] type = "KV" -> <<"KV Cache">>
      [] OTHER -> <<>>

\* [...new Set(capabilities)]: the first occurrence of each, in order
Unique(list) ==
    SelectSeq([i \in 1..Len(list) |->
                  IF \E j \in 1..(i - 1) : list[j] = list[i]
                  THEN <<>> ELSE <<list[i]>>],
              LAMBDA x : x # <<>>)

\* the report of analyzeEnv without its timestamp; entries is
\* Object.entries(env), vars the pairs of name and value in insertion order
RECURSIVE analyzeEntries(_, _)
analyzeEntries(entries, report) ==
    IF entries = <<>> THEN report
    ELSE LET key == Head(entries).key
             value == Head(entries).value
             type == detectBindingType(value)
             next ==
                 IF Len(key) >= 2 /\ SubSeq(key, 1, 2) = <<"_", "_">>
                 THEN report
                 ELSE IF value.type = "object"
                 THEN [report EXCEPT
                         !.bindings = Append(@, [name |-> key, type |-> type]),
                         !.capabilities = @ \o CapabilityOf(type)]
                 ELSE IF value.type = "string"
                 THEN IF isSecret(key)
                      THEN [report EXCEPT !.secrets = Append(@, key)]
                      ELSE [report EXCEPT
                              !.vars = Append(@, <<key, value.text>>)]
                 ELSE report
         IN  analyzeEntries(Tail(entries), next)

analyzeEnv(entries) ==
    LET report == analyzeEntries(entries,
                      [bindings |-> <<>>, secrets |-> <<>>, vars |-> <<>>,
                       capabilities |-> <<>>])
    IN  [report EXCEPT !.capabilities =
            [i \in 1..Len(Unique(@)) |-> Unique(@)[i][1]]]

(***************************************************************************)
(* Metrics (fetchWorkerMetrics, fetchR2Metrics) and alert rules            *)
(***************************************************************************)
\* Math.floor(Math.random() * 10000)
RequestSamples == {100, 9000}

\* fetchWorkerMetrics: the stub's random numbers and its fixed errorRate 0.005
WorkerMetrics(requests) ==
    [requests |-> requests, cpuMs |-> 2500, errors |-> 25, errorRate |-> 5]

\* fetchR2Metrics: storageMB = payloadSize / (1024 * 1024)
R2Metrics(payloadSize) ==
    [objectCount |-> 500, storageMB |-> payloadSize \div (1024 * 1024),
     payloadSize |-> payloadSize, metadataSize |-> 25000]

NoMetrics == [k \in {} |-> 0]

\* the metrics the collection loop can get for an asset
MetricsChoices(asset) ==
    IF asset.type = "worker" THEN {WorkerMetrics(r) : r \in RequestSamples}
    ELSE IF asset.type = "r2" THEN {R2Metrics(5242880)}
    ELSE {NoMetrics}

\* metrics.errorRate > 0.05 ? 'degraded' : 'healthy'   (undefined > x is false)
StatusOf(metrics) ==
    IF "errorRate" \in DOMAIN metrics /\ metrics.errorRate > 50
    THEN "degraded" ELSE "healthy"

\* the snapshot pushed for one asset of the loop
SnapshotOf(asset, timestamp, metrics) ==
    [assetId |-> asset.id, assetType |-> asset.type,
     projectName |-> IF Falsy(asset.projectName) THEN <<"unknown">>
                     ELSE asset.projectName,
     timestamp |-> timestamp, metrics |-> metrics, status |-> StatusOf(metrics)]

\* the switch with 'gt' read as "at least"
Violates_AtLeast(value, rule) ==
    CASE rule.condition = "gt" -> value >= rule.threshold
      [] rule.condition = "lt" -> value < rule.threshold
      [] rule.condition = "eq" -> value = rule.threshold
      [] OTHER -> FALSE

\* the switch of checkThresholds and checkSustainedViolation
Violates(value, rule) ==
    CASE rule.condition = "gt" -> value > rule.threshold
      [] rule.condition = "lt" -> value < rule.threshold
      [] rule.condition = "eq" -> value = rule.threshold
      [] OTHER -> FALSE

RECURSIVE checkThresholds(_, _)
checkThresholds(snapshot, rules) ==
    IF rules = <<>> THEN <<>>
    ELSE LET rule == Head(rules)
             rest == checkThresholds(snapshot, Tail(rules))
         IN  IF rule.metric \notin DOMAIN snapshot.metrics THEN rest
             ELSE IF Violates(snapshot.metrics[rule.metric], rule)
             THEN <<[service |-> snapshot.assetId, metric |-> rule.metric,
                     value |-> snapshot.metrics[rule.metric],
                     threshold |-> rule.threshold, action |-> rule.action,
                     timestamp |-> snapshot.timestamp]>> \o rest
             ELSE rest

\* snapshots.find(s => the rule is violated by s): its index, 0 if none
RECURSIVE FindViolation(_, _, _)
FindViolation(history, rule, i) ==
    IF i > Len(history) THEN 0
    ELSE IF rule.metric \in DOMAIN history[i].metrics
            /\ Violates(history[i].metrics[rule.metric], rule)
    THEN i
    ELSE FindViolation(history, rule, i + 1)

\* checkSustainedViolation with the unit slip of comparing the age in
\* milliseconds with the duration in seconds
checkSustainedViolation_Seconds(history, rule, dateNow) ==
    IF rule.duration = 0 THEN TRUE
    ELSE LET violationStart == FindViolation(history, rule, 1)
         IN  IF violationStart = 0 THEN FALSE
             ELSE dateNow - history[violationStart].timestamp >= rule.duration

\* checkSustainedViolation, with Date.now() as dateNow
checkSustainedViolation(history, rule, dateNow) ==
    IF rule.duration = 0 THEN TRUE
    ELSE LET violationStart == FindViolation(history, rule, 1)
         IN  IF violationStart = 0 THEN FALSE
             ELSE dateNow - history[violationStart].timestamp
                    >= rule.duration * 1000

\* rules the monitor is operated with (durations in seconds, 0 = none)
AlertRules ==
    <<[metric |-> "errorRate", condition |-> "gt", threshold |-> 50,
       action |-> "discord", duration |-> 0],
      [metric |-> "requests", condition |-> "gt", threshold |-> 5000,
       action |-> "log", duration |-> 0]>>

(***************************************************************************)
(* State                                                                   *)
(***************************************************************************)
VARIABLES
    storage,     \* AssetMonitorDO.state.storage: key -> AssetSnapshot
    lastCall,    \* the last operation, its arguments and what it returned
    now,         \* Date.now()
    inventory,   \* what the account holds upstream
    upstream,    \* how the provider answers each discovery call of the cycle
    pc,          \* where scheduled() is
    cycles,      \* cron triggers so far
    workers,     \* scheduled(): const workers
    r2Buckets,   \* scheduled(): const r2Buckets
    d1Databases, \* scheduled(): const d1Databases
    snapshots,   \* scheduled(): const snapshots
    failed,      \* what made the cycle end in its catch block
    env,         \* the worker's bindings: which secrets and webhooks are set
    thresholds,  \* AlertManager.thresholds: metric -> AlertConfig
    alertHistory, \* AlertManager.alertHistory
    inFlight,    \* the /store requests in progress in AssetMonitorDO.fetch
    agentDO      \* BusinessAgentDO: its storage and where chat() is

storeVars == <<storage, lastCall>>

cycleVars == <<now, inventory, upstream, pc, cycles, workers, r2Buckets,
               d1Databases, snapshots, failed>>

alertVars == <<env, thresholds, alertHistory>>

flightVars == <<inFlight, agentDO>>

vars == <<storage, lastCall, now, inventory, upstream, pc, cycles, workers,
          r2Buckets, d1Databases, snapshots, failed, env, thresholds,
          alertHistory, inFlight, agentDO>>

EmptyStore == [k \in {} |-> 0]

ResourceTypes == {"worker", "r2", "d1"}

\* ok; response.ok false; data.success false; no response at all
Answers == {"ok", "http_error", "not_success", "never"}

Blog == <<"blog">>

KiamichiMain == <<"kiamichi", "main">>

MainDb == [uuid |-> <<"u1">>, name |-> <<"kiamichi", "db">>]

Inventories ==
    [workers : {<<>>, <<Blog>>, <<KiamichiMain, Blog>>},
     buckets : {<<>>, <<Blog>>},
     databases : {<<>>, <<MainDb>>}]

NoFailure == [kind |-> "none"]

NoCycle ==
    /\ now = 100
    /\ inventory = [workers |-> <<>>, buckets |-> <<>>, databases |-> <<>>]
    /\ upstream = [t \in ResourceTypes |-> "ok"]
    /\ pc = "idle"
    /\ cycles = 0
    /\ workers = <<>>
    /\ r2Buckets = <<>>
    /\ d1Databases = <<>>
    /\ snapshots = <<>>
    /\ failed = NoFailure

(***************************************************************************)
(* AlertManager (alert-manager.ts)                                         *)
(***************************************************************************)
\* setDefaultThresholds
DefaultThresholds ==
    [error_rate |->
        [metric |-> "error_rate", threshold |-> 5, duration |-> "5m",
         notification |-> "discord"],
     response_time_p95 |->
        [metric |-> "response_time_p95", threshold |-> 1000, duration |-> "10m",
         notification |-> "discord"],
     cost_spike |->
        [metric |-> "cost_spike", threshold |-> 50, duration |-> "none",
         notification |-> "discord"],
     quota_usage |->
        [metric |-> "quota_usage", threshold |-> 90, duration |-> "none",
         notification |-> "discord"]]

\* Map.prototype.set
MapSet(map, key, value) ==
    [k \in DOMAIN map \cup {key} |-> IF k = key THEN value ELSE map[k]]

\* AlertManager.setThreshold
setThreshold(table, config) == MapSet(table, config.metric, config)

\* calculateSeverity with > where the source has >=
calculateSeverity_Strict(value, threshold) ==
    LET above(num, den) ==    \* value / threshold > num / den
            IF threshold > 0 THEN den * value > num * threshold
            ELSE IF threshold < 0 THEN den * value < num * threshold
            ELSE value > 0
    IN  IF above(2, 1) THEN "critical"
        ELSE IF above(3, 2) THEN "warning"
        ELSE "info"

\* AlertManager.calculateSeverity: ratio = value / threshold, compared with 2
\* and 1.5.  Division by 0 gives Infinity for a positive value (NaN for 0, which
\* compares false); a negative threshold turns the comparison round.
calculateSeverity(value, threshold) ==
    LET atLeast(num, den) ==    \* value / threshold >= num / den
            IF threshold > 0 THEN den * value >= num * threshold
            ELSE IF threshold < 0 THEN den * value <= num * threshold
            ELSE value > 0
    IN  IF atLeast(2, 1) THEN "critical"
        ELSE IF atLeast(3, 2) THEN "warning"
        ELSE "info"

\* the alert checkMetric builds: id from crypto.randomUUID(), timestamp from
\* new Date() (the message is a text made of metric, value and threshold)
NewAlert(id, timestamp, metric, value, threshold) ==
    [id |-> id, timestamp |-> timestamp, metric |-> metric, value |-> value,
     threshold |-> threshold, severity |-> calculateSeverity(value, threshold),
     triggered |-> TRUE]

\* sendNotification without the try / catch of the two senders: a failed
\* webhook request leaves the sender as an exception
sendNotification_NoCatch(environment, channel, webhook) ==
    CASE channel = "discord" ->
            IF ~environment.discord THEN "not_configured"
            ELSE IF webhook = "ok" THEN "sent" ELSE "throws"
      [] channel = "telegram" ->
            IF ~environment.telegram THEN "not_configured"
            ELSE IF webhook = "ok" THEN "sent" ELSE "throws"
      [] channel = "email" -> "not_implemented"
      [] OTHER -> "no_such_channel"

\* AlertManager.sendNotification: what becomes of the notification.  A failed
\* webhook request is caught and logged inside the sender.
sendNotification(environment, channel, webhook) ==
    CASE channel = "discord" ->
            IF ~environment.discord THEN "not_configured"
            ELSE IF webhook = "ok" THEN "sent" ELSE "logged_failure"
      [] channel = "telegram" ->
            IF ~environment.telegram THEN "not_configured"
            ELSE IF webhook = "ok" THEN "sent" ELSE "logged_failure"
      [] channel = "email" -> "not_implemented"
      [] OTHER -> "no_such_channel"

Environments ==
    {[secrets |-> TRUE, discord |-> TRUE, telegram |-> TRUE],
     [secrets |-> TRUE, discord |-> FALSE, telegram |-> FALSE],
     [secrets |-> FALSE, discord |-> TRUE, telegram |-> TRUE]}

NoAlertManager ==
    /\ env = [secrets |-> TRUE, discord |-> FALSE, telegram |-> FALSE]
    /\ thresholds = DefaultThresholds
    /\ alertHistory = <<>>

\* the metric counters of BusinessAgentDO.state.storage; a key that was never
\* put reads as undefined, which `|| 0` turns into 0
AgentMetrics ==
    {"workers_ai_requests", "openai_requests", "fallback_count",
     "total_requests"}

\* a BusinessAgentDO fresh from its constructor, no chat in progress
IdleAgent ==
    [pc |-> "idle", storage |-> [m \in AgentMetrics |-> 0],
     useWorkersAI |-> FALSE, phase |-> "none", metric |-> "none",
     current |-> 0]

\* no /store request in progress and an idle agent
NoRequests ==
    /\ inFlight = <<>>
    /\ agentDO = IdleAgent

(***************************************************************************)
(* Requests made directly to the Durable Object                            *)
(***************************************************************************)
StoreAssets == {<<"api">>, Blog}

\* timestamps on both sides of a change of decimal width
StoreTimestamps == {8, 9, 10, 11}

StoreSnapshots ==
    [assetId : {<<"api">>}, assetType : {"worker"}, projectName : {<<"api">>},
     timestamp : StoreTimestamps, metrics : {WorkerMetrics(100)},
     status : {"healthy", "down"}]
    \cup
    [assetId : {Blog}, assetType : {"r2"}, projectName : {Blog},
     timestamp : {9}, metrics : {R2Metrics(5242880)}, status : {"healthy"}]

\* POST /store
StoreRequest(batch) ==
    /\ storage' = StoreHandler(storage, batch)
    /\ lastCall' = [op |-> "store", assets |-> {s.assetId : s \in Range(batch)},
                    pruned |-> Cardinality(DOMAIN PutAll(storage, batch))
                               - Cardinality(DOMAIN storage')]
    /\ UNCHANGED cycleVars
    /\ UNCHANGED <<alertVars, flightVars>>

\* pruneOldSnapshots(assetId, maxSnapshots) called on its own
PruneCall(assetId, maxSnapshots) ==
    /\ storage' = pruneOldSnapshots(storage, assetId, maxSnapshots)
    /\ lastCall' = [op |-> "prune", assetId |-> assetId, max |-> maxSnapshots]
    /\ UNCHANGED cycleVars
    /\ UNCHANGED <<alertVars, flightVars>>

\* getHistory(assetId, limit) called on its own
GetHistoryCall(assetId, limit) ==
    /\ lastCall' = [op |-> "getHistory", assetId |-> assetId, limit |-> limit,
                    result |-> getHistory(storage, assetId, limit)]
    /\ UNCHANGED <<storage, cycleVars>>
    /\ UNCHANGED <<alertVars, flightVars>>

\* GET /alerts
GetAlerts ==
    /\ lastCall' = [op |-> "alerts", active |-> <<>>, recent |-> <<>>]
    /\ UNCHANGED <<storage, cycleVars>>
    /\ UNCHANGED <<alertVars, flightVars>>

StoreInit ==
    /\ storage = EmptyStore
    /\ lastCall = [op |-> "init"]
    /\ NoCycle
    /\ NoAlertManager
    /\ NoRequests

StoreNext ==
    \/ \E b \in SeqsUpTo(StoreSnapshots, MaxBatch) : StoreRequest(b)
    \/ \E a \in StoreAssets, m \in 0..MaxRetainArg : PruneCall(a, m)
    \/ \E a \in StoreAssets, l \in 1..MaxLimitArg : GetHistoryCall(a, l)

SpecStore == StoreInit /\ [][StoreNext]_vars

(***************************************************************************)
(* The service endpoints of the Durable Object over a store filled by      *)
(* /store requests                                                         *)
(***************************************************************************)
\* GET /health/:service
GetServiceHealth(serviceName) ==
    /\ lastCall' = [op |-> "GET /health/", service |-> serviceName,
                    response |-> ServiceHealth(storage, serviceName)]
    /\ UNCHANGED <<storage, cycleVars, alertVars, flightVars>>

\* GET /history/:service
GetServiceHistory(serviceName, limitParam) ==
    /\ lastCall' = [op |-> "GET /history/", service |-> serviceName,
                    limit |-> limitParam,
                    response |-> ServiceHistory(storage, serviceName,
                                                limitParam)]
    /\ UNCHANGED <<storage, cycleVars, alertVars, flightVars>>

ServiceNext ==
    \/ \E b \in SeqsUpTo(StoreSnapshots, MaxBatch) : StoreRequest(b)
    \/ \E a \in StoreAssets : GetServiceHealth(a)
    \/ \E a \in StoreAssets, l \in {<<>>} \cup {<<n>> : n \in 1..MaxLimitArg} :
          GetServiceHistory(a, l)

SpecService == StoreInit /\ [][ServiceNext]_vars

(***************************************************************************)
(* Two POST /store requests in progress at once.  Every await of the       *)
(* handler (put, list, delete) is a step of its request, and the steps of  *)
(* the two requests interleave freely.  A request is the record of its     *)
(* batch, the index i of the loop it is in, and the keys its pruning has   *)
(* still to delete.                                                        *)
(***************************************************************************)
\* the keys pruneOldSnapshots deletes, in the order it deletes them
PruneList(store, assetId, maxSnapshots) ==
    LET listed == getHistory(store, assetId, PruneScanLimit)
        toDelete == Len(listed) - maxSnapshots
    IN  IF Len(listed) > maxSnapshots
        THEN [i \in 1..toDelete |-> Key(assetId, listed[i].timestamp)]
        ELSE <<>>

\* the request after one pruneOldSnapshots call of its second loop returned
AfterPrune(request) ==
    IF request.i < Len(request.batch)
    THEN [request EXCEPT !.pc = "list", !.i = @ + 1, !.keysToDelete = <<>>]
    ELSE [request EXCEPT !.pc = "done", !.keysToDelete = <<>>]

\* await this.state.storage.put(key, snapshot) of the first loop
PutStep(r) ==
    /\ inFlight[r].pc = "put"
    /\ storage' = Put(storage, inFlight[r].batch[inFlight[r].i])
    /\ inFlight' = [inFlight EXCEPT ![r] =
          IF @.i < Len(@.batch) THEN [@ EXCEPT !.i = @ + 1]
          ELSE [@ EXCEPT !.pc = "list", !.i = 1]]
    /\ UNCHANGED <<lastCall, cycleVars, alertVars, agentDO>>

\* await this.getHistory(assetId, 10000) of pruneOldSnapshots
ListStep(r) ==
    /\ inFlight[r].pc = "list"
    /\ LET request == inFlight[r]
           keys == PruneList(storage, request.batch[request.i].assetId,
                             MaxSnapshots)
       IN  inFlight' = [inFlight EXCEPT ![r] =
              IF keys = <<>> THEN AfterPrune(request)
              ELSE [request EXCEPT !.pc = "delete", !.keysToDelete = keys]]
    /\ UNCHANGED <<storage, lastCall, cycleVars, alertVars, agentDO>>

\* await this.state.storage.delete(key) of pruneOldSnapshots
DeleteStep(r) ==
    /\ inFlight[r].pc = "delete"
    /\ storage' = DeleteKeys(storage, {Head(inFlight[r].keysToDelete)})
    /\ inFlight' = [inFlight EXCEPT ![r] =
          IF Len(@.keysToDelete) > 1
          THEN [@ EXCEPT !.keysToDelete = Tail(@)]
          ELSE AfterPrune(@)]
    /\ UNCHANGED <<lastCall, cycleVars, alertVars, agentDO>>

NewRequest(batch) ==
    [pc |-> "put", batch |-> batch, i |-> 1, keysToDelete |-> <<>>]

\* what the store holds when the two requests arrive: nothing, or one
\* snapshot left by an earlier request
StoresBefore ==
    {EmptyStore} \cup {Put(EmptyStore, s) : s \in StoreSnapshots}

\* the two requests carry one snapshot each, so that one listing of
\* pruneOldSnapshots reaches every key of an asset, as it does in the
\* deployed sizes for any two requests of fewer than 9000 snapshots
ConcurrentInit ==
    /\ storage \in StoresBefore
    /\ lastCall = [op |-> "concurrent /store", before |-> storage]
    /\ NoCycle
    /\ NoAlertManager
    /\ agentDO = IdleAgent
    /\ \E a, b \in StoreSnapshots :
          inFlight = <<NewRequest(<<a>>), NewRequest(<<b>>)>>

ConcurrentNext ==
    \E r \in 1..2 : PutStep(r) \/ ListStep(r) \/ DeleteStep(r)

SpecConcurrent == ConcurrentInit /\ [][ConcurrentNext]_vars

(***************************************************************************)
(* BusinessAgentDO.chat (kbc-workers-ai-migration/src/business-agent-do.ts) *)
(* Every await on state.storage is a step.  chatWithWorkersAI and          *)
(* chatWithOpenAI both begin with `await this.incrementMetric(...)`, and   *)
(* incrementMetric ends with `await this.incrementMetric('total_requests')`*)
(* whatever its argument is; the frames below the running one only wait    *)
(* for it, so the running call is all the position there is.               *)
(***************************************************************************)
\* chat(messages): the flag is read, and the primary model's function calls
\* incrementMetric, which issues its storage.get
Chat(useWorkersAI) ==
    /\ agentDO.pc = "idle"
    /\ agentDO' = [agentDO EXCEPT
          !.pc = "get", !.useWorkersAI = useWorkersAI, !.phase = "primary",
          !.metric = IF useWorkersAI THEN "workers_ai_requests"
                     ELSE "openai_requests",
          !.current = 0]
    /\ lastCall' = [op |-> "chat", useWorkersAI |-> useWorkersAI]
    /\ UNCHANGED <<storage, cycleVars, alertVars, inFlight>>

\* incrementMetric: const current = (await storage.get(metric)) || 0
StorageGet ==
    /\ agentDO.pc = "get"
    /\ agentDO' = [agentDO EXCEPT
          !.pc = "put", !.current = agentDO.storage[agentDO.metric]]
    /\ UNCHANGED <<storage, lastCall, cycleVars, alertVars, inFlight>>

\* incrementMetric: await storage.put(metric, current + 1), and then the
\* call incrementMetric('total_requests'), which issues its storage.get
StoragePut ==
    /\ agentDO.pc = "put"
    /\ agentDO' = [agentDO EXCEPT
          !.pc = "get",
          !.storage[agentDO.metric] = Min(agentDO.current + 1, MaxMetric),
          !.metric = "total_requests"]
    /\ UNCHANGED <<storage, lastCall, cycleVars, alertVars, inFlight>>

\* a storage operation rejects: the error leaves every incrementMetric frame
\* and the primary model's function, and reaches the catch of chat, which
\* calls incrementMetric('fallback_count') when Workers AI was tried and
\* rethrows otherwise; an error under the catch block leaves chat
StorageFails ==
    /\ agentDO.pc \in {"get", "put"}
    /\ agentDO' =
          IF agentDO.phase = "primary" /\ agentDO.useWorkersAI
          THEN [agentDO EXCEPT !.pc = "get", !.phase = "fallback",
                               !.metric = "fallback_count"]
          ELSE [agentDO EXCEPT !.pc = "threw"]
    /\ UNCHANGED <<storage, lastCall, cycleVars, alertVars, inFlight>>

\* fetch, POST /chat: the catch answers 500 with the error's message
RespondError ==
    /\ agentDO.pc = "threw"
    /\ agentDO' = [IdleAgent EXCEPT !.storage = agentDO.storage]
    /\ lastCall' = [op |-> "POST /chat", status |-> 500]
    /\ UNCHANGED <<storage, cycleVars, alertVars, inFlight>>

ChatInit ==
    /\ storage = EmptyStore
    /\ lastCall = [op |-> "init"]
    /\ NoCycle
    /\ NoAlertManager
    /\ NoRequests

ChatNext ==
    \/ \E useWorkersAI \in BOOLEAN : Chat(useWorkersAI)
    \/ StorageGet
    \/ StoragePut
    \/ StorageFails
    \/ RespondError

SpecChat == ChatInit /\ [][ChatNext]_vars

\* a storage operation that was issued completes or rejects; nothing makes
\* it reject
SpecChatFair == SpecChat /\ WF_vars(StorageGet) /\ WF_vars(StoragePut)

(***************************************************************************)
(* scheduled(): one periodic cycle.  Every await is a step; an exception   *)
(* thrown anywhere lands in the one catch block, which logs and returns.   *)
(***************************************************************************)
allAssets == workers \o r2Buckets \o d1Databases

\* the catch block of scheduled()
CycleCatch(failure) ==
    /\ failed' = failure
    /\ pc' = "idle"
    /\ lastCall' = [op |-> "scheduled", outcome |-> "error"]

\* the cron trigger: scheduled() starts and awaits discoverWorkers
Tick ==
    /\ pc = "idle"
    /\ cycles < MaxCycles
    /\ cycles' = cycles + 1
    /\ now' = now + 1
    /\ upstream' \in [ResourceTypes -> Answers]
    /\ pc' = "discoverWorkers"
    /\ workers' = <<>>
    /\ r2Buckets' = <<>>
    /\ d1Databases' = <<>>
    /\ snapshots' = <<>>
    /\ failed' = NoFailure
    /\ lastCall' = [op |-> "scheduled", outcome |-> "running"]
    /\ UNCHANGED <<storage, inventory>>
    /\ UNCHANGED <<alertVars, flightVars>>

\* await discoverWorkers(...) settles
DiscoverWorkers ==
    /\ pc = "discoverWorkers"
    /\ upstream["worker"] # "never"
    /\ IF upstream["worker"] = "ok"
       THEN /\ workers' = MapSeq(WorkerAsset, inventory.workers)
            /\ pc' = "discoverR2Buckets"
            /\ UNCHANGED <<failed, lastCall>>
       ELSE /\ CycleCatch([kind |-> "discovery", type |-> "worker"])
            /\ UNCHANGED workers
    /\ UNCHANGED <<storage, now, inventory, upstream, cycles, r2Buckets,
                   d1Databases, snapshots>>
    /\ UNCHANGED <<alertVars, flightVars>>

\* await discoverR2Buckets(...) settles
DiscoverR2Buckets ==
    /\ pc = "discoverR2Buckets"
    /\ upstream["r2"] # "never"
    /\ IF upstream["r2"] = "ok"
       THEN /\ r2Buckets' = MapSeq(BucketAsset, inventory.buckets)
            /\ pc' = "discoverD1Databases"
            /\ UNCHANGED <<failed, lastCall>>
       ELSE /\ CycleCatch([kind |-> "discovery", type |-> "r2"])
            /\ UNCHANGED r2Buckets
    /\ UNCHANGED <<storage, now, inventory, upstream, cycles, workers,
                   d1Databases, snapshots>>
    /\ UNCHANGED <<alertVars, flightVars>>

\* await discoverD1Databases(...) settles
DiscoverD1Databases ==
    /\ pc = "discoverD1Databases"
    /\ upstream["d1"] # "never"
    /\ IF upstream["d1"] = "ok"
       THEN /\ d1Databases' = MapSeq(DatabaseAsset, inventory.databases)
            /\ pc' = "collect"
            /\ UNCHANGED <<failed, lastCall>>
       ELSE /\ CycleCatch([kind |-> "discovery", type |-> "d1"])
            /\ UNCHANGED d1Databases
    /\ UNCHANGED <<storage, now, inventory, upstream, cycles, workers,
                   r2Buckets, snapshots>>
    /\ UNCHANGED <<alertVars, flightVars>>

\* one turn of `for (const asset of allAssets)`: the metrics, then the push
\* with timestamp Date.now()
Collect ==
    /\ pc = "collect"
    /\ Len(snapshots) < Len(allAssets)
    /\ LET asset == allAssets[Len(snapshots) + 1]
       IN  \E metrics \in MetricsChoices(asset), dt \in 0..MaxClockStep :
              /\ now' = now + dt
              /\ snapshots' = Append(snapshots, SnapshotOf(asset, now', metrics))
    /\ UNCHANGED <<storage, lastCall, inventory, upstream, pc, cycles, workers,
                   r2Buckets, d1Databases, failed>>
    /\ UNCHANGED <<alertVars, flightVars>>

\* await monitorDO.fetch('http://do/store', { snapshots }) and the log line
StoreCycle ==
    /\ pc = "collect"
    /\ Len(snapshots) = Len(allAssets)
    /\ storage' = StoreHandler(storage, snapshots)
    /\ pc' = "idle"
    /\ lastCall' = [op |-> "scheduled", outcome |-> "stored"]
    /\ UNCHANGED <<now, inventory, upstream, cycles, workers, r2Buckets,
                   d1Databases, snapshots, failed>>
    /\ UNCHANGED <<alertVars, flightVars>>

\* a collector whose promise rejects: nothing in the loop catches it.  (The
\* collectors of the source are stubs that always resolve; this step is the
\* way a rejection of `await fetchWorkerMetrics(...)` goes through scheduled.)
CollectRejects ==
    /\ pc = "collect"
    /\ Len(snapshots) < Len(allAssets)
    /\ CycleCatch([kind |-> "collect",
                   assetId |-> allAssets[Len(snapshots) + 1].id])
    /\ UNCHANGED <<storage, now, inventory, upstream, cycles, workers,
                   r2Buckets, d1Databases, snapshots>>
    /\ UNCHANGED <<alertVars, flightVars>>

ScheduledStep ==
    \/ DiscoverWorkers
    \/ DiscoverR2Buckets
    \/ DiscoverD1Databases
    \/ Collect
    \/ StoreCycle

CycleInit ==
    /\ storage = EmptyStore
    /\ lastCall = [op |-> "init"]
    /\ now = 100
    /\ inventory \in Inventories
    /\ upstream = [t \in ResourceTypes |-> "ok"]
    /\ pc = "idle"
    /\ cycles = 0
    /\ workers = <<>>
    /\ r2Buckets = <<>>
    /\ d1Databases = <<>>
    /\ snapshots = <<>>
    /\ failed = NoFailure
    /\ NoAlertManager
    /\ NoRequests

CycleNext ==
    \/ Tick
    \/ ScheduledStep
    \/ GetAlerts

SpecCycle == CycleInit /\ [][CycleNext]_vars

\* the program's own steps are taken when they can be; the provider is not
\* obliged to answer
SpecCycleFair == SpecCycle /\ WF_vars(ScheduledStep)

CollectFaultNext ==
    \/ CycleNext
    \/ CollectRejects

SpecCollectFault == CycleInit /\ [][CollectFaultNext]_vars

(***************************************************************************)
(* Calls on one AlertManager, and the dashboard's POST /api/alerts         *)
(***************************************************************************)
\* AlertConfig.notification (alert-manager.ts:11)
Channels == {"discord", "telegram", "email"}

\* configurations offered to setThreshold: a known metric on each of its
\* other channels, a channel that does not exist, a metric that does not exist
ConfigInputs ==
    {[metric |-> "error_rate", threshold |-> 10, duration |-> "none",
      notification |-> "telegram"],
     [metric |-> "error_rate", threshold |-> 10, duration |-> "none",
      notification |-> "pager"],
     [metric |-> "bogus", threshold |-> 8, duration |-> "none",
      notification |-> "email"],
     [metric |-> "bogus", threshold |-> 8, duration |-> "none",
      notification |-> "discord"]}

CheckedMetrics == {"error_rate", "bogus"}

\* below every threshold; 1.2, 1.5 and 2.4 times one; 2.0 and 2.5 times one
CheckedValues == {4, 12, 20}

\* whether the webhook request of a notification succeeds
WebhookOutcomes == {"ok", "fails"}

\* alerts.setThreshold(config)
SetThresholdCall(config) ==
    /\ thresholds' = setThreshold(thresholds, config)
    /\ lastCall' = [op |-> "setThreshold", config |-> config, threw |-> FALSE]
    /\ UNCHANGED <<storage, cycleVars, env, alertHistory, flightVars>>

\* alerts.getThreshold(metric)
GetThresholdCall(metric) ==
    /\ lastCall' = [op |-> "getThreshold", metric |-> metric,
                    result |-> IF metric \in DOMAIN thresholds
                               THEN <<thresholds[metric]>> ELSE <<>>]
    /\ UNCHANGED <<storage, cycleVars, alertVars, flightVars>>

\* alerts.checkMetric(metric, value).  The alert is pushed on the history
\* before the notification is awaited; a notification that threw would leave
\* checkMetric through the await, without the return of the alert.
CheckMetricCall(metric, value, webhook) ==
    /\ Len(alertHistory) < MaxAlerts
    /\ IF metric \notin DOMAIN thresholds
       THEN /\ lastCall' = [op |-> "checkMetric", metric |-> metric,
                            value |-> value, triggered |-> FALSE,
                            result |-> <<>>, notification |-> "none",
                            webhook |-> "none", threw |-> FALSE]
            /\ UNCHANGED <<alertHistory, now>>
       ELSE LET config    == thresholds[metric]
                triggered == value > config.threshold
                alert     == NewAlert(Len(alertHistory) + 1, now + 1, metric,
                                      value, config.threshold)
                sent      == sendNotification(env, config.notification, webhook)
            IN  IF triggered
                THEN /\ now' = now + 1
                     /\ alertHistory' = Append(alertHistory, alert)
                     /\ lastCall' =
                          [op |-> "checkMetric", metric |-> metric,
                           value |-> value, triggered |-> TRUE,
                           result |-> IF sent = "throws" THEN <<>>
                                      ELSE <<alert>>,
                           notification |-> sent, webhook |-> webhook,
                           threw |-> (sent = "throws")]
                ELSE /\ lastCall' = [op |-> "checkMetric", metric |-> metric,
                                     value |-> value, triggered |-> FALSE,
                                     result |-> <<>>, notification |-> "none",
                                     webhook |-> "none", threw |-> FALSE]
                     /\ UNCHANGED <<alertHistory, now>>
    /\ UNCHANGED <<storage, inventory, upstream, pc, cycles, workers, r2Buckets,
                   d1Databases, snapshots, failed, env, thresholds, flightVars>>

\* alerts.sendTestAlert()
SendTestAlertCall(webhook) ==
    /\ lastCall' = [op |-> "sendTestAlert",
                    discord |-> sendNotification(env, "discord", webhook),
                    telegram |-> sendNotification(env, "telegram", webhook)]
    /\ UNCHANGED <<storage, cycleVars, alertVars, flightVars>>

\* fetch of the dashboard worker, POST /api/alerts: the request builds its own
\* AlertManager (index.ts:49), sets the threshold on it and answers success
PostAlerts(config) ==
    /\ IF ~env.secrets
       THEN lastCall' = [op |-> "POST /api/alerts", config |-> config,
                         status |-> 500, table |-> DefaultThresholds]
       ELSE LET alerts == DefaultThresholds
            IN  lastCall' = [op |-> "POST /api/alerts", config |-> config,
                             status |-> 200,
                             table |-> setThreshold(alerts, config)]
    /\ UNCHANGED <<storage, cycleVars, alertVars, flightVars>>

\* fetch of the dashboard worker, GET /api/alerts: the request builds its own
\* AlertManager (index.ts:49), whose table is the default one and whose
\* history is empty, and answers getHistory of it
GetAlertsRequest ==
    /\ IF ~env.secrets
       THEN lastCall' = [op |-> "GET /api/alerts", status |-> 500,
                         alerts |-> <<>>, table |-> DefaultThresholds]
       ELSE LET alerts == [thresholds |-> DefaultThresholds,
                           alertHistory |-> <<>>]
            IN  lastCall' = [op |-> "GET /api/alerts", status |-> 200,
                             alerts |-> alerts.alertHistory,
                             table |-> alerts.thresholds]
    /\ UNCHANGED <<storage, cycleVars, alertVars, flightVars>>

AlertInit ==
    /\ storage = EmptyStore
    /\ lastCall = [op |-> "init"]
    /\ NoCycle
    /\ env \in Environments
    /\ thresholds = DefaultThresholds
    /\ alertHistory = <<>>
    /\ NoRequests

AlertNext ==
    \/ \E c \in ConfigInputs : SetThresholdCall(c)
    \/ \E m \in CheckedMetrics : GetThresholdCall(m)
    \/ \E m \in CheckedMetrics, v \in CheckedValues, w \in WebhookOutcomes :
          CheckMetricCall(m, v, w)
    \/ \E w \in WebhookOutcomes : SendTestAlertCall(w)
    \/ \E c \in ConfigInputs : PostAlerts(c)
    \/ GetAlertsRequest

SpecAlerts == AlertInit /\ [][AlertNext]_vars

(***************************************************************************)
(* checkSustainedViolation on the histories of one asset                   *)
(***************************************************************************)
\* ages of the snapshots of a history, in milliseconds before Date.now()
Ages == {360000, 180000, 60000, 0}

\* errorRate 0.010, errorRate 0.100, no errorRate in the snapshot
HistoryMetrics == {[errorRate |-> 10], [errorRate |-> 100], NoMetrics}

\* histories as getHistory returns them: oldest first, one snapshot per key
Histories ==
    {h \in SeqsUpTo(Ages \X HistoryMetrics, MaxHistory) :
        \A i \in 1..Len(h) - 1 : h[i][1] > h[i + 1][1]}

HistoryOf(h, dateNow) ==
    [i \in 1..Len(h) |->
        [assetId |-> Blog, timestamp |-> dateNow - h[i][1], metrics |-> h[i][2]]]

\* the rule of the monitor's test suite, with and without a duration and a
\* condition ("none": the field is missing)
SustainedRules ==
    [metric : {"errorRate"}, condition : {"gt", "lt", "eq", "none"},
     threshold : {50}, action : {"discord"}, duration : {0, 300}]

SustainedInit ==
    /\ storage = EmptyStore
    /\ NoCycle
    /\ NoAlertManager
    /\ NoRequests
    /\ \E h \in Histories, r \in SustainedRules :
          lastCall = [op |-> "input", snapshots |-> HistoryOf(h, 2000000),
                      rule |-> r]

\* checkSustainedViolation(snapshots, rule) at Date.now() = dateNow
CheckSustained ==
    /\ lastCall.op = "input"
    /\ now' = 2000000
    /\ lastCall' = [op |-> "checkSustainedViolation",
                    snapshots |-> lastCall.snapshots, rule |-> lastCall.rule,
                    result |-> checkSustainedViolation(lastCall.snapshots,
                                                       lastCall.rule, now')]
    /\ UNCHANGED <<storage, inventory, upstream, pc, cycles, workers, r2Buckets,
                   d1Databases, snapshots, failed, alertVars, flightVars>>

SustainedNext == CheckSustained

SpecSustained == SustainedInit /\ [][SustainedNext]_vars

(***************************************************************************)
(* checkThresholds on one snapshot and a list of rules                     *)
(***************************************************************************)
\* metrics of the snapshot: errorRate absent, below, at or above 0.050;
\* requests absent or 50; cpuMs never there
ThresholdMetrics ==
    {NoMetrics, [errorRate |-> 40], [errorRate |-> 50], [errorRate |-> 60],
     [requests |-> 50], [errorRate |-> 40, requests |-> 50],
     [errorRate |-> 50, requests |-> 50], [errorRate |-> 60, requests |-> 50]}

ThresholdRules ==
    [metric : {"errorRate", "requests", "cpuMs"},
     condition : {"gt", "lt", "eq"},
     threshold : {50}, action : {"discord"}, duration : {0}]

ThresholdsInit ==
    /\ storage = EmptyStore
    /\ NoCycle
    /\ NoAlertManager
    /\ NoRequests
    /\ \E m \in ThresholdMetrics, r \in SeqsUpTo(ThresholdRules, MaxRules) :
          lastCall = [op |-> "input",
                      snapshot |-> [assetId |-> Blog, timestamp |-> 100,
                                    metrics |-> m],
                      rules |-> r]

\* checkThresholds(snapshot, rules)
CheckThresholds ==
    /\ lastCall.op = "input"
    /\ lastCall' = [op |-> "checkThresholds", snapshot |-> lastCall.snapshot,
                    rules |-> lastCall.rules,
                    result |-> checkThresholds(lastCall.snapshot, lastCall.rules)]
    /\ UNCHANGED <<storage, cycleVars, alertVars, flightVars>>

ThresholdsNext == CheckThresholds

SpecThresholds == ThresholdsInit /\ [][ThresholdsNext]_vars

(***************************************************************************)
(* calculateUptime on a list of checks                                     *)
(***************************************************************************)
\* AssetSnapshot.status
Statuses == {"healthy", "degraded", "down"}

ChecksOf(statuses) ==
    [i \in 1..Len(statuses) |->
        [assetId |-> Blog, timestamp |-> 100 + i, status |-> statuses[i]]]

UptimeInit ==
    /\ storage = EmptyStore
    /\ NoCycle
    /\ NoAlertManager
    /\ NoRequests
    /\ \E st \in SeqsUpTo(Statuses, MaxChecks) :
          lastCall = [op |-> "input", checks |-> ChecksOf(st)]

\* calculateUptime(checks)
CalculateUptime ==
    /\ lastCall.op = "input"
    /\ lastCall' = [op |-> "calculateUptime", checks |-> lastCall.checks,
                    result |-> calculateUptime(lastCall.checks)]
    /\ UNCHANGED <<storage, cycleVars, alertVars, flightVars>>

UptimeNext == CalculateUptime

SpecUptime == UptimeInit /\ [][UptimeNext]_vars

(***************************************************************************)
(* GET /api/workers/:name/health of the dashboard: getWorkerHealth on what *)
(* the analytics API reports                                               *)
(***************************************************************************)
ErrorCounts == {0, 1, 2, 3, 5, 10, 50}

SubrequestCounts == {0, 1, 10, 50, 95, 99, 100, 1000}

\* the row of the analytics answer, or none
AnalyticsRows ==
    {<<>>} \cup
    {<<[sum |-> [errors |-> e, subrequests |-> r]]>> :
        e \in ErrorCounts, r \in SubrequestCounts}

WorkerHealthInit ==
    /\ storage = EmptyStore
    /\ NoCycle
    /\ NoAlertManager
    /\ NoRequests
    /\ \E name \in {KiamichiMain, Blog}, d \in AnalyticsRows :
          lastCall = [op |-> "input", name |-> name, data |-> d]

\* api.getWorkerHealth(name)
GetWorkerHealth ==
    /\ lastCall.op = "input"
    /\ lastCall' = [op |-> "getWorkerHealth", name |-> lastCall.name,
                    data |-> lastCall.data,
                    result |-> getWorkerHealth(lastCall.name, lastCall.data)]
    /\ UNCHANGED <<storage, cycleVars, alertVars, flightVars>>

WorkerHealthNext == GetWorkerHealth

SpecWorkerHealth == WorkerHealthInit /\ [][WorkerHealthNext]_vars

(***************************************************************************)
(* GET /api/overview of the dashboard                                      *)
(***************************************************************************)
\* listWorkers: { id, name: id }
WorkerItem(id) == [name |-> id, id |-> id, title |-> <<>>]

\* listD1Databases: { uuid, name }
DatabaseItem(name) == [name |-> name, id |-> <<>>, title |-> <<>>]

\* listR2Buckets: { name }
BucketItem(name) == [name |-> name, id |-> <<>>, title |-> <<>>]

\* listKVNamespaces: { id, title }
NamespaceItem(id, title) == [name |-> <<>>, id |-> id, title |-> title]

\* the worker services of the account, in the order the API lists them
WorkerPool ==
    << <<"kiamichi", "biz", "connect">>, <<"kiamichi", "facebook", "worker">>,
       <<"minte", "blog", "worker">>, <<"twisted", "custom", "leather">> >>

RECURSIVE Picked(_, _)
Picked(pool, chosen) ==
    IF pool = <<>> THEN <<>>
    ELSE (IF Head(pool) \in chosen THEN <<WorkerItem(Head(pool))>> ELSE <<>>)
         \o Picked(Tail(pool), chosen)

Listings ==
    [workers : {Picked(WorkerPool, c) : c \in SUBSET Range(WorkerPool)},
     databases : {<<>>, <<DatabaseItem(<<"kiamichi", "biz", "connect", "db">>)>>},
     buckets : {<<>>, <<BucketItem(<<"twisted", "custom", "leather", "images">>)>>},
     namespaces : {<<>>, <<NamespaceItem(<<"0f2ac74b498b">>,
                                         <<"kiamichi", "biz", "connect", "cache">>)>>},
     durableObjects : {<<>>}]

\* ?project= of the request: none, 'all', the presets, and names without a
\* preset
ProjectParams ==
    {<<>>, <<"all">>, <<"devflo">>, <<"kiamichi">>, <<"minte">>, <<"srvcflo">>,
     <<"atlas">>, <<"kiamichi", "biz", "connect">>,
     <<"twisted", "custom", "leather">>, <<"twisted">>}

OverviewInit ==
    /\ storage = EmptyStore
    /\ NoCycle
    /\ NoAlertManager
    /\ NoRequests
    /\ \E l \in Listings, p \in ProjectParams :
          lastCall = [op |-> "input", listed |-> l, project |-> p]

\* getDashboardOverview(api, project)
GetOverview ==
    /\ lastCall.op = "input"
    /\ lastCall' = [op |-> "getDashboardOverview", listed |-> lastCall.listed,
                    project |-> lastCall.project,
                    result |-> getDashboardOverview(lastCall.listed,
                                                    lastCall.project)]
    /\ UNCHANGED <<storage, cycleVars, alertVars, flightVars>>

OverviewNext == GetOverview

SpecOverview == OverviewInit /\ [][OverviewNext]_vars

(***************************************************************************)
(* categorizeByProject on a list of assets                                 *)
(***************************************************************************)
TwistedCustomLeather == <<"twisted", "custom", "leather">>

CategorizedNames ==
    {KiamichiMain, <<"kiamichi", "facebook">>, TwistedCustomLeather,
     <<"devflo", "workspace", "prod">>, Blog}

\* an asset as a caller may hand it over without the optional projectName
BareAsset(name) ==
    [id |-> name, name |-> name, type |-> "worker", projectName |-> <<>>]

\* assets as discovery returns them, and assets without a projectName
CategorizedAssets ==
    {WorkerAsset(n) : n \in CategorizedNames}
    \cup {BareAsset(n) : n \in CategorizedNames}

CategorizeInit ==
    /\ storage = EmptyStore
    /\ NoCycle
    /\ NoAlertManager
    /\ NoRequests
    /\ \E a \in SeqsUpTo(CategorizedAssets, MaxAssets) :
          lastCall = [op |-> "input", assets |-> a]

\* categorizeByProject(assets)
CategorizeByProject ==
    /\ lastCall.op = "input"
    /\ lastCall' = [op |-> "categorizeByProject", assets |-> lastCall.assets,
                    result |-> categorizeByProject(lastCall.assets)]
    /\ UNCHANGED <<storage, cycleVars, alertVars, flightVars>>

CategorizeNext == CategorizeByProject

SpecCategorize == CategorizeInit /\ [][CategorizeNext]_vars

(***************************************************************************)
(* GET /api/costs of the dashboard.  The usage calls of the API client      *)
(* answer with fixed figures; the runs take those and a second figure for  *)
(* each.                                                                   *)
(***************************************************************************)
UsageAnswers ==
    [workersUsage :
        [total_requests : {1000000, 20000000}, cpu_time_ms : {50000}],
     workersAIUsage : {[total_tokens |-> 5000000]},
     r2Costs : [total_cost_usd : {81, 0}],
     d1Usage : [rows_read : {500000}, rows_written : {50000, 600000}],
     doCosts : [cost_usd : {50, 0}],
     kvUsage : [read_count : {500000, 100000}, write_count : {50000, 1000},
                storage_gb : {500}]]

CostsInit ==
    /\ storage = EmptyStore
    /\ NoCycle
    /\ NoAlertManager
    /\ NoRequests
    /\ \E a \in UsageAnswers, t \in {"30d", "60d"} :
          lastCall = [op |-> "input", timeframe |-> t, answers |-> a]

\* getTotalCosts(api, costs, timeframe)
GetTotalCosts ==
    /\ lastCall.op = "input"
    /\ lastCall' = [op |-> "getTotalCosts", timeframe |-> lastCall.timeframe,
                    answers |-> lastCall.answers,
                    result |-> getTotalCosts(lastCall.answers)]
    /\ UNCHANGED <<storage, cycleVars, alertVars, flightVars>>

CostsNext == GetTotalCosts

SpecCosts == CostsInit /\ [][CostsNext]_vars

(***************************************************************************)
(* GET /api/costs/forecast of the dashboard                                *)
(***************************************************************************)
\* the usage answers of the two getTotalCosts calls of one forecast
ForecastAnswers ==
    {a \in UsageAnswers : a.kvUsage.write_count = 50000}

ForecastInit ==
    /\ storage = EmptyStore
    /\ NoCycle
    /\ NoAlertManager
    /\ NoRequests
    /\ \E c \in ForecastAnswers, q \in ForecastAnswers :
          lastCall = [op |-> "input", current |-> c, previous |-> q]

\* forecastCosts(api, costs)
ForecastCosts ==
    /\ lastCall.op = "input"
    /\ LET currentMonth  == getTotalCosts(lastCall.current)
           previousMonth == getTotalCosts(lastCall.previous)
       IN  lastCall' = [op |-> "forecastCosts",
                        currentMonth |-> currentMonth,
                        previousMonth |-> previousMonth,
                        result |-> forecastCosts(currentMonth, previousMonth)]
    /\ UNCHANGED <<storage, cycleVars, alertVars, flightVars>>

ForecastNext == ForecastCosts

SpecForecast == ForecastInit /\ [][ForecastNext]_vars

(***************************************************************************)
(* The calculators of CostCalculator that have a free tier, on usage       *)
(* below, at and above each allowance                                      *)
(***************************************************************************)
WorkersUsages ==
    [total_requests : {0, 100000, 10000000, 11000000, 20000000},
     cpu_time_ms : {0, 50000, 1000000, 30000000}]

D1Usages ==
    [rows_read : {0, 500000, 5000000, 15000000},
     rows_written : {0, 50000, 100000, 600000}]

KVUsages ==
    [read_count : {0, 100000, 500000}, write_count : {0, 1000, 50000},
     storage_gb : {0, 500, 1000}]

CalculatorInit ==
    /\ storage = EmptyStore
    /\ NoCycle
    /\ NoAlertManager
    /\ NoRequests
    /\ \/ \E u \in WorkersUsages :
             lastCall = [op |-> "input", resource |-> "workers", usage |-> u]
       \/ \E u \in D1Usages :
             lastCall = [op |-> "input", resource |-> "d1", usage |-> u]
       \/ \E u \in KVUsages :
             lastCall = [op |-> "input", resource |-> "kv", usage |-> u]

\* costs.calculateWorkersCost(usage)
CalculateWorkersCost ==
    /\ lastCall.op = "input" /\ lastCall.resource = "workers"
    /\ lastCall' = [op |-> "calculate", resource |-> "workers",
                    usage |-> lastCall.usage,
                    result |-> calculateWorkersCost(lastCall.usage)]
    /\ UNCHANGED <<storage, cycleVars, alertVars, flightVars>>

\* costs.calculateD1Cost(usage)
CalculateD1Cost ==
    /\ lastCall.op = "input" /\ lastCall.resource = "d1"
    /\ lastCall' = [op |-> "calculate", resource |-> "d1",
                    usage |-> lastCall.usage,
                    result |-> calculateD1Cost(lastCall.usage)]
    /\ UNCHANGED <<storage, cycleVars, alertVars, flightVars>>

\* costs.calculateKVCost(usage)
CalculateKVCost ==
    /\ lastCall.op = "input" /\ lastCall.resource = "kv"
    /\ lastCall' = [op |-> "calculate", resource |-> "kv",
                    usage |-> lastCall.usage,
                    result |-> calculateKVCost(lastCall.usage)]
    /\ UNCHANGED <<storage, cycleVars, alertVars, flightVars>>

CalculatorNext ==
    \/ CalculateWorkersCost
    \/ CalculateD1Cost
    \/ CalculateKVCost

SpecCalculators == CalculatorInit /\ [][CalculatorNext]_vars

(***************************************************************************)
(* GET /health of the sync monitor                                         *)
(***************************************************************************)
\* Date.now() of the sync monitor's runs, in milliseconds
SyncNow == 2000000

\* what BUCKET.get('.last-sync') gives: ages of 0, 5, 10, nearly 11, 11 and
\* 20 minutes, a time one minute ahead, and a text that is no date
LastSyncs ==
    {[kind |-> "missing", time |-> <<>>], [kind |-> "throws", time |-> <<>>],
     [kind |-> "text", time |-> <<>>]}
    \cup {[kind |-> "text", time |-> <<SyncNow - age>>] :
             age \in {0, 300000, 600000, 659000, 660000, 1200000, -60000}}

ListPage(n) == [objects |-> n, throws |-> FALSE]

ListThrows == [objects |-> 0, throws |-> TRUE]

\* what the calls of BUCKET.list give, 1000 objects at most in a page
Listings1000 ==
    {<<ListPage(0)>>, <<ListPage(1)>>, <<ListPage(1000), ListPage(42)>>,
     <<ListThrows>>, <<ListPage(1000), ListThrows>>}

SyncInit ==
    /\ storage = EmptyStore
    /\ NoCycle
    /\ NoAlertManager
    /\ NoRequests
    /\ \E l \in LastSyncs, g \in Listings1000, t \in {"", "5", "abc"} :
          lastCall = [op |-> "input",
                      env |-> [STALE_THRESHOLD_MINUTES |-> t],
                      bucket |-> [lastSync |-> l, pages |-> g]]

\* fetch of the sync monitor, GET /health
SyncHealthRequest ==
    /\ lastCall.op = "input"
    /\ now' = SyncNow
    /\ LET status == checkSyncHealth(lastCall.env, lastCall.bucket, now')
       IN  lastCall' = [op |-> "GET /health", env |-> lastCall.env,
                        bucket |-> lastCall.bucket, body |-> status,
                        status |-> IF status.healthy THEN 200 ELSE 503]
    /\ UNCHANGED <<storage, inventory, upstream, pc, cycles, workers, r2Buckets,
                   d1Databases, snapshots, failed, alertVars, flightVars>>

SyncNext == SyncHealthRequest

SpecSync == SyncInit /\ [][SyncNext]_vars

(***************************************************************************)
(* GET /introspect on two environments that differ in secret values        *)
(***************************************************************************)
EnvNames ==
    {<<"A", "P", "I", "_", "T", "O", "K", "E", "N">>,
     <<"A", "N", "T", "H", "R", "O", "P", "I", "C", "_", "A", "P", "I", "_", "K", "E", "Y">>,
     <<"E", "N", "V", "I", "R", "O", "N", "M", "E", "N", "T">>,
     <<"G", "I", "T", "H", "U", "B", "_", "T", "O", "K", "E", "N">>,
     <<"d", "b", "_", "p", "a", "s", "s", "w", "o", "r", "d">>,
     <<"_", "_", "S", "E", "C", "R", "E", "T">>,
     <<"D", "B">>,
     <<"A", "I">>}

StringValue(t) == [type |-> "string", text |-> t, props |-> {}]

ObjectValue(ps) == [type |-> "object", text |-> "", props |-> ps]

EnvTexts == {"prod", "sk-1"}

EnvValues ==
    {StringValue(t) : t \in EnvTexts}
    \cup {ObjectValue({"prepare", "batch"}), ObjectValue({"run"}),
          ObjectValue({"put", "get", "list", "delete", "head"}),
          [type |-> "number", text |-> "", props |-> {}]}

\* environments of two variables
IntrospectedEnvs ==
    {<<[key |-> k1, value |-> v1], [key |-> k2, value |-> v2]>> :
        <<k1, k2, v1, v2>> \in
            {q \in EnvNames \X EnvNames \X EnvValues \X EnvValues :
                q[1] # q[2]}}

\* a variable name carries one of the patterns API_KEY, TOKEN, SECRET,
\* PASSWORD
NamesASecret(name) ==
    \E p \in {<<"A", "P", "I", "_", "K", "E", "Y">>,
               <<"T", "O", "K", "E", "N">>,
               <<"S", "E", "C", "R", "E", "T">>,
               <<"P", "A", "S", "S", "W", "O", "R", "D">>} :
        Includes(toUpperCase(name), p)

\* b is a with other values for string variables named as secrets
DifferInSecretValues(a, b) ==
    /\ Len(a) = Len(b)
    /\ \A i \in 1..Len(a) :
          /\ a[i].key = b[i].key
          /\ \/ a[i].value = b[i].value
             \/ /\ NamesASecret(a[i].key)
                /\ a[i].value.type = "string"
                /\ b[i].value.type = "string"

IntrospectInit ==
    /\ storage = EmptyStore
    /\ NoCycle
    /\ NoAlertManager
    /\ NoRequests
    /\ \E a \in IntrospectedEnvs :
          \E b \in {e \in IntrospectedEnvs : DifferInSecretValues(a, e)} :
             lastCall = [op |-> "input", env |-> a, other |-> b]

\* fetch of the introspector, GET /introspect, under each of the two
AnalyzeEnv ==
    /\ lastCall.op = "input"
    /\ lastCall' = [op |-> "analyzeEnv", env |-> lastCall.env,
                    other |-> lastCall.other,
                    report |-> analyzeEnv(lastCall.env),
                    otherReport |-> analyzeEnv(lastCall.other)]
    /\ UNCHANGED <<storage, cycleVars, alertVars, flightVars>>

IntrospectNext == AnalyzeEnv

SpecIntrospect == IntrospectInit /\ [][IntrospectNext]_vars

(***************************************************************************)
(* C1                                                                      *)
(***************************************************************************)
TimestampsOf(store, assetId) ==
    {store[k].timestamp : k \in {j \in DOMAIN store : j[1] = assetId}}

\* the n greatest members of a set of numbers
Greatest(S, n) == {x \in S : Cardinality({y \in S : y > x}) < n}

\* C1: pruneOldSnapshots(assetId, maxRetained) on an asset with T snapshots
\* deletes exactly max(0, T - maxRetained) of them, and when T > maxRetained
\* the asset is left with exactly its maxRetained most recent snapshots.
C1_PruneKeepsMostRecent ==
    [][lastCall'.op = "prune" =>
        LET a      == lastCall'.assetId
            m      == lastCall'.max
            before == TimestampsOf(storage, a)
            after  == TimestampsOf(storage', a)
            T      == Cardinality(before)
        IN  /\ after \subseteq before
            /\ Cardinality(before \ after) = Max(0, T - m)
            /\ T > m => after = Greatest(before, m)]_vars

(***************************************************************************)
(* C5 - C9: the periodic cycle                                             *)
(***************************************************************************)
DiscoveryFailed(t) == upstream[t] \in {"http_error", "not_success"}

\* what the account holds of one resource type, as assets
InventoryAssets(t) ==
    CASE t = "worker" -> Range(MapSeq(WorkerAsset, inventory.workers))
      [] t = "r2"     -> Range(MapSeq(BucketAsset, inventory.buckets))
      [] t = "d1"     -> Range(MapSeq(DatabaseAsset, inventory.databases))

\* the cycle that just ended has a snapshot of this asset in the store
StoredThisCycle(assetId) ==
    \E i \in 1..Len(snapshots) :
        /\ snapshots[i].assetId = assetId
        /\ KeyOf(snapshots[i]) \in DOMAIN storage
        /\ storage[KeyOf(snapshots[i])].assetId = assetId

CycleEnded == pc = "idle" /\ cycles > 0

\* C5: once a cycle has stored a snapshot that violates a rule without a
\* sustained duration, GET /alerts returns an alert for that asset and metric
\* (in active or in recent).
C5_ViolationIsReported ==
    lastCall.op = "alerts" =>
        \A k \in DOMAIN storage : \A i \in 1..Len(AlertRules) :
            (AlertRules[i].duration = 0
             /\ checkThresholds(storage[k], <<AlertRules[i]>>) # <<>>)
            => \E a \in Range(lastCall.active) \cup Range(lastCall.recent) :
                  a.service = storage[k].assetId /\ a.metric = AlertRules[i].metric

\* C6: when the discovery of exactly one resource type fails in a cycle, the
\* assets of the other types are still discovered, collected and stored in
\* that cycle.
C6_DiscoveryFailureIsIsolated ==
    \A t \in ResourceTypes :
        (CycleEnded /\ DiscoveryFailed(t)
         /\ \A o \in ResourceTypes \ {t} : upstream[o] = "ok")
        => \A o \in ResourceTypes \ {t} : \A asset \in InventoryAssets(o) :
              StoredThisCycle(asset.id)

C8_CycleFinishes == (pc # "idle") ~> (pc = "idle")

\* C9: a cycle over N discovered assets adds exactly N snapshots to the store,
\* each under a key of its own.
C9_OneSnapshotPerAsset ==
    [][(pc = "collect" /\ pc' = "idle" /\ failed'.kind = "none") =>
        /\ Cardinality({KeyOf(snapshots[i]) : i \in 1..Len(snapshots)})
             = Len(allAssets)
        /\ Cardinality(DOMAIN storage' \ DOMAIN storage) = Len(allAssets)]_vars

(***************************************************************************)
(* C2, C10, C12, C13: AlertManager                                         *)
(***************************************************************************)
\* C2: while an alert for a metric is unresolved, a further evaluation that
\* finds the rule still violated adds no alert: of two consecutive violating
\* evaluations of one metric, the second leaves the alert history as it is.
C2_NoSecondAlert ==
    [][(/\ lastCall.op = "checkMetric" /\ lastCall.triggered
        /\ lastCall'.op = "checkMetric" /\ lastCall'.triggered
        /\ lastCall'.metric = lastCall.metric)
       => alertHistory' = alertHistory]_vars

Recognised(config) ==
    /\ config.metric \in DOMAIN DefaultThresholds
    /\ config.notification \in Channels

\* C10: setThreshold and POST /api/alerts reject a configuration whose metric
\* or notification channel is not a recognised value, and the rejected
\* configuration leaves the threshold table as it was.
C10_UnrecognisedConfigRejected ==
    [][/\ (lastCall'.op = "setThreshold" /\ ~Recognised(lastCall'.config))
            => (lastCall'.threw /\ thresholds' = thresholds)
       /\ (lastCall'.op = "POST /api/alerts" /\ ~Recognised(lastCall'.config))
            => (lastCall'.status \in 400..499
                /\ lastCall'.table = DefaultThresholds)]_vars

\* C12: when the webhook request of a notification fails, checkMetric does
\* not throw: it returns the alert and the alert is in the alert history, on
\* every channel and also when the channel is not configured.
C12_FailedWebhookDoesNotThrow ==
    (/\ lastCall.op = "checkMetric" /\ lastCall.triggered
     /\ lastCall.webhook = "fails")
    => /\ ~lastCall.threw
       /\ Len(lastCall.result) = 1
       /\ lastCall.result[1].metric = lastCall.metric
       /\ lastCall.result[1].value = lastCall.value
       /\ lastCall.result[1] = alertHistory[Len(alertHistory)]

\* an alert on Telegram whose webhook request failed and was logged
C12_Witness ==
    /\ lastCall.op = "checkMetric" /\ lastCall.triggered
    /\ lastCall.webhook = "fails"
    /\ lastCall.notification = "logged_failure"
    /\ thresholds[lastCall.metric].notification = "telegram"
    /\ lastCall.result = <<alertHistory[Len(alertHistory)]>>

\* the severity the ratio value / threshold stands for, threshold > 0:
\* critical from 2.0 on, warning from 1.5 to below 2.0, info below 1.5
SeverityOfRatio(value, threshold) ==
    IF value >= 2 * threshold THEN "critical"
    ELSE IF 2 * value >= 3 * threshold /\ value < 2 * threshold THEN "warning"
    ELSE "info"

\* C13: every alert created by checkMetric carries the severity of its ratio
\* value / threshold: critical when the ratio is at least 2.0 (a value exactly
\* twice the threshold included), warning when it is at least 1.5 and below
\* 2.0, info otherwise.
C13_SeverityFollowsRatio ==
    \A i \in 1..Len(alertHistory) :
        LET a == alertHistory[i]
        IN  /\ a.threshold > 0
            /\ a.value > a.threshold
            /\ a.severity = SeverityOfRatio(a.value, a.threshold)

\* one alert at exactly twice its threshold, one at exactly 1.5 times
C13_Witness ==
    /\ \E i \in 1..Len(alertHistory) :
          /\ alertHistory[i].value = 2 * alertHistory[i].threshold
          /\ alertHistory[i].severity = "critical"
    /\ \E i \in 1..Len(alertHistory) :
          /\ 2 * alertHistory[i].value = 3 * alertHistory[i].threshold
          /\ alertHistory[i].severity = "warning"

(***************************************************************************)
(* C14: checkThresholds                                                    *)
(***************************************************************************)
\* the condition of a rule holds for a value
ConditionHolds(value, rule) ==
    \/ rule.condition = "gt" /\ value > rule.threshold
    \/ rule.condition = "lt" /\ value < rule.threshold
    \/ rule.condition = "eq" /\ value = rule.threshold

\* the positions of the rules whose metric the snapshot has and whose
\* condition holds
ViolatedRules(snapshot, rules) ==
    {i \in 1..Len(rules) :
        /\ rules[i].metric \in DOMAIN snapshot.metrics
        /\ ConditionHolds(snapshot.metrics[rules[i].metric], rules[i])}

\* the j-th member of a set of positions, in ascending order
NthOf(S, j) == CHOOSE i \in S : Cardinality({k \in S : k < i}) = j - 1

\* C14: checkThresholds returns exactly one violation for each rule whose
\* metric is in snapshot.metrics and whose condition holds (gt, lt, eq), in
\* rule order, and none for a rule whose metric is absent or whose condition
\* does not hold.
C14_OneViolationPerViolatedRule ==
    lastCall.op = "checkThresholds" =>
        LET snapshot == lastCall.snapshot
            rules    == lastCall.rules
            hit      == ViolatedRules(snapshot, rules)
        IN  /\ Len(lastCall.result) = Cardinality(hit)
            /\ \A j \in 1..Len(lastCall.result) :
                  LET rule == rules[NthOf(hit, j)]
                      v    == lastCall.result[j]
                  IN  /\ v.service = snapshot.assetId
                      /\ v.metric = rule.metric
                      /\ v.value = snapshot.metrics[rule.metric]
                      /\ v.threshold = rule.threshold
                      /\ v.action = rule.action
                      /\ v.timestamp = snapshot.timestamp

\* three rules on a snapshot: the first and the last are violated, on
\* different metrics, the one between them is not
C14_Witness ==
    /\ lastCall.op = "checkThresholds"
    /\ Len(lastCall.rules) = 3
    /\ ViolatedRules(lastCall.snapshot, lastCall.rules) = {1, 3}
    /\ Len(lastCall.result) = 2
    /\ lastCall.result[1].metric = "requests"
    /\ lastCall.result[2].metric = "errorRate"
    /\ lastCall.rules[2].metric = "errorRate"

(***************************************************************************)
(* C15: calculateUptime                                                    *)
(***************************************************************************)
\* the fraction q is the number x
FractionIs(q, x) == q.den > 0 /\ q.num = x * q.den

\* C15: for a list of n > 0 snapshots of which k are healthy, calculateUptime
\* returns 100 * k / n, and for the empty list it returns 100.
C15_UptimeIsHealthyShare ==
    lastCall.op = "calculateUptime" =>
        LET n == Len(lastCall.checks)
            k == Cardinality({i \in 1..n : lastCall.checks[i].status = "healthy"})
        IN  IF n = 0 THEN FractionIs(lastCall.result, 100)
            ELSE /\ lastCall.result.den > 0
                 /\ lastCall.result.num * n = 100 * k * lastCall.result.den

\* the case of the test suite: four checks, three healthy and one not, 75
C15_Witness ==
    /\ lastCall.op = "calculateUptime"
    /\ Len(lastCall.checks) = 4
    /\ \E i \in 1..4 : lastCall.checks[i].status = "degraded"
    /\ \A i \in 1..4 : lastCall.checks[i].status \in {"healthy", "degraded"}
    /\ FractionIs(lastCall.result, 75)

(***************************************************************************)
(* C16: getHistory                                                         *)
(***************************************************************************)
\* C16: getHistory(assetId, limit) returns at most limit snapshots, all of
\* them of assetId, ordered oldest first by timestamp (the most recent last).
C16_HistoryOldestFirst ==
    lastCall.op = "getHistory" =>
        LET result == lastCall.result
        IN  /\ Len(result) <= lastCall.limit
            /\ \A i \in 1..Len(result) : result[i].assetId = lastCall.assetId
            /\ \A i \in 1..Len(result) : \A j \in 1..Len(result) :
                  i < j => result[i].timestamp < result[j].timestamp

(***************************************************************************)
(* C17: the derived error rate                                             *)
(***************************************************************************)
\* C17: the derived error rate of a function asset is errors / (errors +
\* requests), and 0 when errors + requests = 0: an asset that reports zero
\* errors and zero requests is never classified degraded or down on account
\* of its error rate.
C17_ZeroTrafficIsNotUnhealthy ==
    (lastCall.op = "getWorkerHealth" /\ lastCall.data # <<>>) =>
        LET sum   == lastCall.data[1].sum
            total == sum.errors + sum.subrequests
            rate  == lastCall.result.errorRate    \* in percent
        IN  /\ ~rate.nan
            /\ total > 0 => rate.num * total = 100 * sum.errors * rate.den
            /\ total = 0 => /\ rate.num = 0
                            /\ lastCall.result.status = "healthy"

(***************************************************************************)
(* C18: the project filter of the overview                                 *)
(***************************************************************************)
\* a resource belongs to a project when one of its names carries the name of
\* the project or one of the names the project's preset lists
BelongsTo(item, project) ==
    \E n \in {item.name, item.id, item.title} \ {<<>>} :
        \/ Includes(n, project)
        \/ /\ project \in DOMAIN PROJECT_PRESETS
           /\ \E i \in 1..Len(PROJECT_PRESETS[project]) :
                 Includes(n, PROJECT_PRESETS[project][i])

\* C18: when the overview is asked with a project filter other than 'all',
\* every returned worker, database, bucket and namespace belongs to that
\* project, also for a project name that has no preset entry.
C18_OverviewFiltersByProject ==
    (/\ lastCall.op = "getDashboardOverview"
     /\ lastCall.project \notin {<<>>, <<"all">>})
    => LET r == lastCall.result
       IN  \A item \in Range(r.workers) \cup Range(r.databases)
                        \cup Range(r.r2_buckets) \cup Range(r.kv_namespaces) :
               BelongsTo(item, lastCall.project)

(***************************************************************************)
(* C19: categorizeByProject                                                *)
(***************************************************************************)
\* the project a name stands for by the naming rule: the first hyphen-delimited
\* segment, and twisted-custom-leather for twisted-custom-leather
ProjectOfName(name) ==
    IF name = TwistedCustomLeather THEN TwistedCustomLeather ELSE <<name[1]>>

\* C19: categorizeByProject places each asset of the list in the group keyed
\* by the project derived from its name: assets with the same first segment
\* share a group (kiamichi-main and kiamichi-facebook under kiamichi,
\* devflo-workspace-prod under devflo), and twisted-custom-leather is grouped
\* under twisted-custom-leather.
C19_GroupedByDerivedProject ==
    lastCall.op = "categorizeByProject" =>
        \A i \in 1..Len(lastCall.assets) :
            LET asset   == lastCall.assets[i]
                project == ProjectOfName(asset.name)
            IN  /\ project \in DOMAIN lastCall.result
                /\ asset \in Range(lastCall.result[project])

(***************************************************************************)
(* C20: the cost summary                                                   *)
(***************************************************************************)
\* C20: the cost summary returned for a timeframe has total_usd equal to the
\* sum of its per-resource costs (workers, workers_ai, r2, d1,
\* durable_objects, kv).
C20_TotalIsSumOfCosts ==
    lastCall.op = "getTotalCosts" =>
        LET r == lastCall.result
        IN  r.total_usd = r.workers + r.workers_ai + r.r2 + r.d1
                          + r.durable_objects + r.kv

(***************************************************************************)
(* C21: the cost forecast                                                  *)
(***************************************************************************)
\* C21: when the previous period's total cost is 0, the forecast has a trend
\* of 0 percent and an estimate equal to the current period's cost; no
\* estimate, bound or trend of a forecast is undefined (non-numeric).
C21_ForecastIsDefined ==
    lastCall.op = "forecastCosts" =>
        LET r == lastCall.result
        IN  /\ ~r.estimated_total_usd.nan
            /\ ~r.confidence_interval.low.nan
            /\ ~r.confidence_interval.high.nan
            /\ ~r.trend_percent.nan
            /\ lastCall.previousMonth.total_usd = 0 =>
                  /\ FractionIs(r.trend_percent, 0)
                  /\ FractionIs(r.estimated_total_usd,
                                lastCall.currentMonth.total_usd)

(***************************************************************************)
(* C22: the free tiers of the cost calculators                             *)
(***************************************************************************)
\* the allowances of calculateWorkersCost, calculateD1Cost, calculateKVCost
WorkersFreeRequests == 10000000

D1FreeRowsRead == 5000000

D1FreeRowsWritten == 100000

KVFreeReads == 100000

KVFreeWrites == 1000

\* the usage dimensions of a resource that have an allowance, with it
Allowances(resource) ==
    CASE resource = "workers" -> {<<"total_requests", WorkersFreeRequests>>}
      [] resource = "d1" -> {<<"rows_read", D1FreeRowsRead>>,
                             <<"rows_written", D1FreeRowsWritten>>}
      [] resource = "kv" -> {<<"read_count", KVFreeReads>>,
                             <<"write_count", KVFreeWrites>>}

\* every dimension that has an allowance is at or below it
WithinAllowances(resource, usage) ==
    \A a \in Allowances(resource) : usage[a[1]] <= a[2]

\* the usage without what lies within an allowance
BillableUsage(resource, usage) ==
    [f \in DOMAIN usage |->
        IF \E a \in Allowances(resource) : a[1] = f /\ usage[f] <= a[2]
        THEN 0 ELSE usage[f]]

CostOf(resource, usage) ==
    CASE resource = "workers" -> calculateWorkersCost(usage)
      [] resource = "d1" -> calculateD1Cost(usage)
      [] resource = "kv" -> calculateKVCost(usage)

Calculated == lastCall.op = "calculate"

ConfiguredThreshold(environment) ==
    IF environment.STALE_THRESHOLD_MINUTES = "5" THEN 5 ELSE 10

\* the .last-sync object exists, carries a time, and that time is at most
\* the threshold (in whole minutes) old
SyncIsRecent(environment, bucket, dateNow) ==
    /\ bucket.lastSync.kind = "text"
    /\ bucket.lastSync.time # <<>>
    /\ (dateNow - bucket.lastSync.time[1]) \div 60000
          <= ConfiguredThreshold(environment)

\* C23: checkSyncHealth reports healthy = true only if the .last-sync object
\* exists, its timestamp is at most STALE_THRESHOLD_MINUTES (default 10)
\* minutes old and the bucket holds at least one object; in every other case
\* healthy is false and the health endpoint answers 503.
C23_HealthyOnlyWhenRecent ==
    lastCall.op = "GET /health" =>
        /\ lastCall.body.healthy =>
              /\ SyncIsRecent(lastCall.env, lastCall.bucket, now)
              /\ lastCall.body.fileCount >= 1
        /\ ~lastCall.body.healthy => lastCall.status = 503

(***************************************************************************)
(* C24: secret values in the introspector's report                         *)
(***************************************************************************)
\* C24: analyzeEnv never exposes a secret value: of a string variable whose
\* name matches a secret pattern (API_KEY, TOKEN, SECRET, PASSWORD) only the
\* name is reported, so two environments that differ only in the values of
\* such variables produce the same bindings, secrets, vars and capabilities.
C24_SecretValuesDoNotShow ==
    lastCall.op = "analyzeEnv" =>
        /\ lastCall.report = lastCall.otherReport
        /\ \A i \in 1..Len(lastCall.env) :
              (/\ NamesASecret(lastCall.env[i].key)
               /\ lastCall.env[i].value.type = "string")
              => \A j \in 1..Len(lastCall.report.vars) :
                    lastCall.report.vars[j][1] # lastCall.env[i].key

(***************************************************************************)
(* C25, C26: the service endpoints                                         *)
(***************************************************************************)
\* the stored snapshots of an asset
StoredOf(store, assetId) ==
    {store[k] : k \in {j \in DOMAIN store : j[1] = assetId}}

\* C25: after any sequence of store operations, GET /health/:service reports
\* the status and lastCheck of the asset's stored snapshot with the greatest
\* timestamp, however many snapshots the asset has.
C25_HealthReportsLatest ==
    lastCall.op = "GET /health/" =>
        \A snapshot \in StoredOf(storage, lastCall.service) :
            (\A o \in StoredOf(storage, lastCall.service) :
                o.timestamp <= snapshot.timestamp)
            => /\ lastCall.response.status = 200
               /\ lastCall.response.body[1].lastCheck = snapshot.timestamp
               /\ lastCall.response.body[1].status = snapshot.status

\* index.ts:448  "Last 24h (5min intervals)": 288 ticks a day       (scaled)
TicksPerDay == 2

\* calculateUptime over the n most recent stored snapshots of an asset
UptimeOfMostRecent(store, assetId, n) ==
    LET recent == Greatest(TimestampsOf(store, assetId), n)
        all == getHistory(store, assetId, Cardinality(DOMAIN store))
    IN  calculateUptime(SelectSeq(all, LAMBDA c : c.timestamp \in recent))

SameFraction(p, q) == p.num * q.den = q.num * p.den

UptimeFollowsTicks(store, assetId, uptime) ==
    /\ SameFraction(uptime.h24, UptimeOfMostRecent(store, assetId, TicksPerDay))
    /\ SameFraction(uptime.d7,
                    UptimeOfMostRecent(store, assetId, 7 * TicksPerDay))

\* C26: the 24h and 7d uptime figures are computed over the most recent N
\* and 7 * N stored snapshots, N the number of ticks of a day (288 at the
\* 5-minute interval), with one slicing policy for both windows.
C26_UptimeWindowsFollowTicks ==
    /\ (lastCall.op = "GET /health/" /\ lastCall.response.status = 200)
       => UptimeFollowsTicks(storage, lastCall.service,
                             lastCall.response.body[1].uptime)
    /\ lastCall.op = "GET /history/"
       => UptimeFollowsTicks(storage, lastCall.service,
                             lastCall.response.uptime)

(***************************************************************************)
(* C27, C28: what /store leaves in the store                               *)
(***************************************************************************)
KeysOf(store, assetId) == {k \in DOMAIN store : k[1] = assetId}

\* C27: after every completed /store request, each asset that had a snapshot
\* in the request holds at most 1000 snapshots in the store, whatever the
\* sequence and sizes of the earlier requests.
C27_StoreKeepsAtMostMax ==
    lastCall.op = "store" =>
        \A a \in lastCall.assets :
            Cardinality(KeysOf(storage, a)) <= MaxSnapshots

\* a request that took an asset beyond the reach of one listing and whose
\* prunings deleted two snapshots to bring it back to the maximum
C27_Witness ==
    /\ lastCall.op = "store"
    /\ lastCall.pruned = PruneScanLimit + 1 - MaxSnapshots
    /\ \E a \in lastCall.assets :
          Cardinality(KeysOf(storage, a)) = MaxSnapshots

\* C28: a stored snapshot is never modified: once stored under (assetId,
\* timestamp), every later read of that key returns the same content until
\* pruning deletes it, whatever later /store requests contain.
C28_StoredSnapshotIsNeverModified ==
    [][\A k \in DOMAIN storage \cap DOMAIN storage' :
          storage'[k] = storage[k]]_vars

(***************************************************************************)
(* C29: two /store requests at once                                        *)
(***************************************************************************)
BothComplete ==
    /\ lastCall.op = "concurrent /store"
    /\ \A r \in 1..Len(inFlight) : inFlight[r].pc = "done"

\* the snapshots the requests in progress carry
WrittenSnapshots ==
    UNION {Range(inFlight[r].batch) : r \in 1..Len(inFlight)}

\* the timestamps of every snapshot the asset was given: those the store
\* held before and those the requests wrote
EverStored(assetId) ==
    TimestampsOf(lastCall.before, assetId)
    \cup {s.timestamp : s \in {w \in WrittenSnapshots : w.assetId = assetId}}

\* C29: when two /store requests are processed concurrently with their
\* storage operations (put, list, delete) interleaved, no snapshot written by
\* either is lost unless it lies outside the 1000 most recent of its asset,
\* and once both complete every affected asset holds at most 1000 snapshots.
C29_ConcurrentStoresLoseNothing ==
    BothComplete =>
        /\ \A s \in WrittenSnapshots :
              s.timestamp \in Greatest(EverStored(s.assetId), MaxSnapshots)
              => KeyOf(s) \in DOMAIN storage
        /\ \A s \in WrittenSnapshots :
              Cardinality(KeysOf(storage, s.assetId)) <= MaxSnapshots

(***************************************************************************)
(* C30: chat comes to an end                                               *)
(***************************************************************************)
\* C30: every BusinessAgentDO.chat call eventually returns a response or
\* throws an error: each metric update (incrementMetric) performs a bounded
\* number of storage reads and writes and then returns.
C30_ChatComesToAnEnd ==
    (agentDO.pc \in {"get", "put"}) ~> (agentDO.pc \in {"returned", "threw"})

(***************************************************************************)
(* C11: the threshold table across requests                                *)
(***************************************************************************)
\* C11: after POST /api/alerts has set the threshold of a metric, the next
\* request of the running service works with that threshold: the table of the
\* request that follows a successful update holds the posted configuration,
\* not the default.
C11_ThresholdSurvivesRequests ==
    [][(/\ lastCall.op = "POST /api/alerts" /\ lastCall.status = 200
        /\ lastCall'.op = "GET /api/alerts" /\ lastCall'.status = 200)
       => /\ lastCall.config.metric \in DOMAIN lastCall'.table
          /\ lastCall'.table[lastCall.config.metric] = lastCall.config]_vars

(***************************************************************************)
(* C3, C4: sustained-duration gating                                       *)
(***************************************************************************)
ViolatingAt(history, rule) ==
    {i \in 1..Len(history) :
        /\ rule.metric \in DOMAIN history[i].metrics
        /\ Violates(history[i].metrics[rule.metric], rule)}

\* the age of the oldest violating snapshot is exactly `age` milliseconds
OldestViolationAged(history, rule, dateNow, age) ==
    /\ ViolatingAt(history, rule) # {}
    /\ \A i \in ViolatingAt(history, rule) : dateNow - history[i].timestamp <= age
    /\ \E i \in ViolatingAt(history, rule) : dateNow - history[i].timestamp = age

\* from some violating snapshot at least `age` milliseconds old on, no
\* snapshot of the history reports the metric within the rule (a snapshot
\* without the metric is not taken for a break)
HeldContinuously(history, rule, dateNow, age) ==
    \E i \in ViolatingAt(history, rule) :
        /\ dateNow - history[i].timestamp >= age
        /\ \A j \in i..Len(history) :
              \/ j \in ViolatingAt(history, rule)
              \/ rule.metric \notin DOMAIN history[j].metrics

Evaluated == lastCall.op = "checkSustainedViolation"

\* C3: with a sustained duration of 300 seconds, checkSustainedViolation
\* answers false when the oldest violating snapshot is 60 seconds old, and
\* true when the violation has been there for 360 seconds.
C3_SustainedGate ==
    (Evaluated /\ lastCall.rule.duration = 300) =>
        /\ OldestViolationAged(lastCall.snapshots, lastCall.rule, now, 60000)
              => lastCall.result = FALSE
        /\ (/\ OldestViolationAged(lastCall.snapshots, lastCall.rule, now, 360000)
            /\ HeldContinuously(lastCall.snapshots, lastCall.rule, now, 360000))
              => lastCall.result = TRUE

C3_Witness ==
    /\ Evaluated
    /\ lastCall.rule.duration = 300
    /\ Len(lastCall.snapshots) = MaxHistory
    /\ OldestViolationAged(lastCall.snapshots, lastCall.rule, now, 360000)
    /\ HeldContinuously(lastCall.snapshots, lastCall.rule, now, 360000)
    /\ lastCall.result = TRUE

\* C4: with a sustained duration above 0, checkSustainedViolation answers
\* true only if the rule has been violated without a break for at least that
\* duration.
C4_OnlyUnbrokenViolations ==
    (Evaluated /\ lastCall.rule.duration > 0 /\ lastCall.result = TRUE) =>
        HeldContinuously(lastCall.snapshots, lastCall.rule, now,
                         lastCall.rule.duration * 1000)

====
